---------------------------- MODULE Spec2Model ----------------------------
(***************************************************************************)
(* MusicApp: the relational store (tables, constraints, row-level          *)
(* security policies, the two SECURITY DEFINER functions) and the client   *)
(* handlers that write to it.                                              *)
(*                                                                         *)
(* A request to the store carries the id of the authenticated profile      *)
(* (auth.uid()); the store applies the table's policies and constraints    *)
(* and either changes the table or leaves it as it was.  Every statement   *)
(* is atomic.  The client handlers are modelled with their await points:   *)
(* a handler that awaits a store call is one step up to the call and one   *)
(* step for the call's answer and what the handler does with it.           *)
(***************************************************************************)
EXTENDS Integers, Sequences, FiniteSets, TLC

VARIABLES
    auth_users,              \* auth.users: the ids of the identities
    venues,                  \* venues rows
    user_media,              \* user_media rows
    user_profiles,           \* user_profiles: id -> user_type
    jobs,                    \* jobs rows
    job_applications,        \* job_applications rows
    groups,                  \* groups rows
    group_members,           \* group_members rows
    group_job_applications,  \* group_job_applications rows
    messages,                \* messages rows
    now,                     \* NOW(): the store's clock
    nextId,                  \* gen_random_uuid(): the next fresh row id
    last,                    \* the request answered last, with its answer
    applications,            \* JobsScreen: the artist's applications state
    screenJobs,              \* JobsScreen: the venue's jobs state (its applications)
    calls,                   \* the store calls the screens' handlers have made
    session,                 \* supabase.auth: the session's user (Null: none)
    authUser,                \* AuthProvider: the user state (with session)
    authProfile,             \* AuthProvider: the profile state
    loading,                 \* AuthProvider: the loading state
    pending,                 \* AuthProvider: the calls awaited, not answered yet
    route,                   \* expo-router: the route shown
    form                     \* the text fields of the screen shown

vars == <<auth_users, venues, user_profiles, jobs, job_applications, groups,
          group_members,
          group_job_applications, messages, now, nextId, last,
          applications, screenJobs, calls, user_media, session,
          authUser, authProfile, loading, pending, route, form>>

\* The identities with the venue directory; the tables of users, jobs and
\* groups; the messages table with the clock; the state of the client's
\* screens.
accountVars == <<auth_users, venues, user_media>>
directoryVars == <<accountVars, user_profiles, jobs, groups, group_members>>
messageVars == <<messages, now>>
screenVars == <<applications, screenJobs, calls>>
contextVars == <<session, authUser, authProfile, loading, pending, route>>
clientVars == <<contextVars, form>>

\* SQL NULL and JavaScript null, and the requester without a session.
Null == "null"
Anon == "anon"

\* The profile state null.
NoProfile == [id |-> Null]

\* No screen with text fields is shown.
NoForm == [screen |-> "none"]

\* AuthProvider as constructed (the useState initial values), no call
\* awaited, and the index route shown.
AuthProviderInit ==
    /\ session = Null
    /\ authUser = Null
    /\ authProfile = NoProfile
    /\ loading = TRUE
    /\ pending = <<>>
    /\ route = "index"
    /\ form = NoForm

\* ---------------------------------------------------------------- bounds
\* Rows ever inserted into the application tables of one run.
MaxRows == 2
\* Rows ever inserted into messages in one run.
MaxMsgs == 2
\* The last value of the store's clock.
MaxTime == 1
\* Store calls the JobsScreen handlers make in one run.
MaxCalls == 3

\* -------------------------------------------------------------- the world
Profiles == {"a1", "v1", "v2"}
JobIds == {"j1", "j2"}
GroupIds == {"g1"}
Status == {"pending", "accepted", "rejected"}

\* The answer of a request that has not been made.
NoRequest ==
    [op |-> "none", uid |-> "", job |-> "", who |-> "", id |-> 0,
     result |-> "", rows |-> {}]

Answer(op, uid, job, who, id, result, rows) ==
    [op |-> op, uid |-> uid, job |-> job, who |-> who, id |-> id,
     result |-> result, rows |-> rows]

\* ------------------------------------------------- job_applications policies
\* "Artists can view their own applications"
ArtistsCanViewTheirOwnApplications(uid, r) == uid = r.artist_id

\* The policy with the join on the job's id left out: any profile that owns
\* some job sees every application.
VenuesCanViewApplicationsOfAnyJob(uid, r) ==
    \E j \in jobs : j.venue_id = uid

\* "Venues can view applications for their jobs"
VenuesCanViewApplicationsForTheirJobs(uid, r) ==
    \E j \in jobs : j.id = r.job_id /\ j.venue_id = uid

\* The SELECT policies of job_applications are permissive: a row is visible
\* when one of them holds.
JobApplicationsSelectPolicy(uid, r) ==
    \/ ArtistsCanViewTheirOwnApplications(uid, r)
    \/ VenuesCanViewApplicationsForTheirJobs(uid, r)

\* "Artists can apply to jobs"
ArtistsCanApplyToJobs(uid, r) == uid = r.artist_id

\* The UPDATE policy written like the SELECT policies: the applicant may
\* update too.
ApplicantsCanUpdateApplicationStatus(uid, r) ==
    \/ uid = r.artist_id
    \/ \E j \in jobs : j.id = r.job_id /\ j.venue_id = uid

\* "Venues can update application status for their jobs"
VenuesCanUpdateApplicationStatus(uid, r) ==
    \E j \in jobs : j.id = r.job_id /\ j.venue_id = uid

\* The table without its UNIQUE(job_id, artist_id) constraint.
JobApplicationsNotUnique(r) == TRUE

\* UNIQUE(job_id, artist_id): does the table hold another row of r's pair?
JobApplicationsUnique(r) ==
    ~\E o \in job_applications :
        o.id # r.id /\ o.job_id = r.job_id /\ o.artist_id = r.artist_id

\* job_id REFERENCES jobs(id), artist_id REFERENCES user_profiles(id)
JobApplicationsForeignKeys(r) ==
    /\ \E j \in jobs : j.id = r.job_id
    /\ r.artist_id \in DOMAIN user_profiles

\* The answer of INSERT INTO job_applications for the new row r.
InsertJobApplicationResult(uid, r) ==
    IF ~ArtistsCanApplyToJobs(uid, r) THEN "rls_violation"
    ELSE IF ~JobApplicationsUnique(r) THEN "unique_violation"
    ELSE IF ~JobApplicationsForeignKeys(r) THEN "fk_violation"
    ELSE "ok"

\* INSERT INTO job_applications (job_id, artist_id, status) by uid.
InsertJobApplication(uid, job_id, artist_id, status) ==
    LET r == [id |-> nextId, job_id |-> job_id, artist_id |-> artist_id,
              status |-> status]
        res == InsertJobApplicationResult(uid, r)
    IN  /\ nextId <= MaxRows
        /\ job_applications' =
               IF res = "ok" THEN job_applications \cup {r} ELSE job_applications
        /\ nextId' = IF res = "ok" THEN nextId + 1 ELSE nextId
        /\ last' = Answer("insert_job_application", uid, job_id, artist_id,
                          0, res, {})
        /\ UNCHANGED <<directoryVars, group_job_applications, messageVars,
                       screenVars,
                       clientVars>>

\* UPDATE job_applications SET status = .. WHERE id = ..  by uid: the rows
\* the USING policy hides from uid are not updated, and that is no error.
UpdateJobApplication(uid, id, status) ==
    LET hit == {r \in job_applications :
                    r.id = id /\ VenuesCanUpdateApplicationStatus(uid, r)}
    IN  /\ job_applications' =
               (job_applications \ hit)
                   \cup {[r EXCEPT !.status = status] : r \in hit}
        /\ last' = Answer("update_job_application", uid, "", "", id,
                          IF hit = {} THEN "no_rows" ELSE "ok", {})
        /\ UNCHANGED <<directoryVars, group_job_applications, messageVars,
                       nextId, screenVars,
                       clientVars>>

\* SELECT * FROM job_applications by uid.
SelectJobApplications(uid) ==
    /\ last' = Answer("select_job_applications", uid, "", "", 0, "ok",
                      {r \in job_applications : JobApplicationsSelectPolicy(uid, r)})
    /\ UNCHANGED <<directoryVars, job_applications, group_job_applications,
                   messageVars, nextId, screenVars,
                   clientVars>>

\* -------------------------------------------- group_job_applications policies
\* The policy with the group's creator admitted as well as its members.
GroupMembersOrCreatorCanCreateApplications(uid, r) ==
    \/ \E m \in group_members : m.group_id = r.group_id /\ m.user_id = uid
    \/ \E g \in groups : g.id = r.group_id /\ g.created_by = uid

\* "Group members can create applications"
GroupMembersCanCreateApplications(uid, r) ==
    \E m \in group_members : m.group_id = r.group_id /\ m.user_id = uid

\* "Venue owners can update application status"
VenueOwnersCanUpdateApplicationStatus(uid, r) ==
    \E j \in jobs : j.id = r.job_id /\ j.venue_id = uid

\* UNIQUE(job_id, group_id)
GroupJobApplicationsUnique(r) ==
    ~\E o \in group_job_applications :
        o.id # r.id /\ o.job_id = r.job_id /\ o.group_id = r.group_id

\* job_id REFERENCES jobs(id), group_id REFERENCES groups(id)
GroupJobApplicationsForeignKeys(r) ==
    /\ \E j \in jobs : j.id = r.job_id
    /\ \E g \in groups : g.id = r.group_id

InsertGroupJobApplicationResult(uid, r) ==
    IF ~GroupMembersCanCreateApplications(uid, r) THEN "rls_violation"
    ELSE IF ~GroupJobApplicationsUnique(r) THEN "unique_violation"
    ELSE IF ~GroupJobApplicationsForeignKeys(r) THEN "fk_violation"
    ELSE "ok"

\* INSERT INTO group_job_applications (job_id, group_id, status) by uid.
InsertGroupJobApplication(uid, job_id, group_id, status) ==
    LET r == [id |-> nextId, job_id |-> job_id, group_id |-> group_id,
              status |-> status]
        res == InsertGroupJobApplicationResult(uid, r)
    IN  /\ nextId <= MaxRows
        /\ group_job_applications' =
               IF res = "ok" THEN group_job_applications \cup {r}
               ELSE group_job_applications
        /\ nextId' = IF res = "ok" THEN nextId + 1 ELSE nextId
        /\ last' = Answer("insert_group_job_application", uid, job_id, group_id,
                          0, res, {})
        /\ UNCHANGED <<directoryVars, job_applications, messageVars,
                       screenVars,
                       clientVars>>

\* UPDATE group_job_applications SET status = .. WHERE id = ..  by uid.
UpdateGroupJobApplication(uid, id, status) ==
    LET hit == {r \in group_job_applications :
                    r.id = id /\ VenueOwnersCanUpdateApplicationStatus(uid, r)}
    IN  /\ group_job_applications' =
               (group_job_applications \ hit)
                   \cup {[r EXCEPT !.status = status] : r \in hit}
        /\ last' = Answer("update_group_job_application", uid, "", "", id,
                          IF hit = {} THEN "no_rows" ELSE "ok", {})
        /\ UNCHANGED <<directoryVars, job_applications, messageVars, nextId,
                       screenVars,
                       clientVars>>

\* ------------------------------------------------------ the job board store
\* Profiles a1 (artist), v1 and v2 (venues); v1 posted j1 and v2 posted j2;
\* a1 created the group g1 and is its one member.
SignedUp ==
    /\ auth_users = Profiles
    /\ venues = {}
    /\ user_media = {}
    /\ AuthProviderInit
    /\ user_profiles = [p \in Profiles |-> IF p = "a1" THEN "artist" ELSE "venue"]
    /\ job_applications = {}
    /\ group_job_applications = {}
    /\ messages = {}
    /\ now = 0
    /\ nextId = 1
    /\ applications = [u \in Profiles |-> {}]
    /\ screenJobs = [u \in Profiles |-> {}]
    /\ calls = <<>>

Posted ==
    /\ SignedUp
    /\ jobs = {[id |-> "j1", venue_id |-> "v1", status |-> "open"],
               [id |-> "j2", venue_id |-> "v2", status |-> "open"]}
    /\ groups = {[id |-> "g1", created_by |-> "a1"]}
    /\ group_members = {[id |-> 0, group_id |-> "g1", user_id |-> "a1"]}

Init ==
    /\ Posted
    /\ last = NoRequest

Next ==
    \/ \E uid \in Profiles, j \in JobIds, a \in Profiles, s \in Status :
           InsertJobApplication(uid, j, a, s)
    \/ \E uid \in Profiles, id \in 1..MaxRows, s \in Status :
           UpdateJobApplication(uid, id, s)
    \/ \E uid \in Profiles : SelectJobApplications(uid)
    \/ \E uid \in Profiles, j \in JobIds, g \in GroupIds, s \in Status :
           InsertGroupJobApplication(uid, j, g, s)
    \/ \E uid \in Profiles, id \in 1..MaxRows, s \in Status :
           UpdateGroupJobApplication(uid, id, s)

Spec == Init /\ [][Next]_vars

\* ---------------------------------------------------------- messages policies
\* "Users can read their own messages"
UsersCanReadTheirOwnMessages(uid, m) == uid = m.sender_id \/ uid = m.receiver_id

\* "Users can send messages"
UsersCanSendMessages(uid, m) == uid = m.sender_id /\ uid # m.receiver_id

\* "Users can update their own messages": the policy has a USING expression
\* and no WITH CHECK, so the same expression is applied to the row as updated.
UsersCanUpdateTheirOwnMessages(uid, m) == uid = m.sender_id \/ uid = m.receiver_id

\* sender_id, receiver_id REFERENCES user_profiles(id)
MessagesForeignKeys(m) ==
    /\ m.sender_id \in DOMAIN user_profiles
    /\ m.receiver_id \in DOMAIN user_profiles

NoMessageRequest ==
    [op |-> "none", uid |-> "", user1 |-> "", user2 |-> "", id |-> 0,
     result |-> "", rows |-> {}, conversations |-> {}, thread |-> <<>>]

MessageAnswer(op, uid, user1, user2, id, result, rows, conversations) ==
    [op |-> op, uid |-> uid, user1 |-> user1, user2 |-> user2, id |-> id,
     result |-> result, rows |-> rows, conversations |-> conversations,
     thread |-> <<>>]

InsertMessageResult(uid, m) ==
    IF ~UsersCanSendMessages(uid, m) THEN "rls_violation"
    ELSE IF ~MessagesForeignKeys(m) THEN "fk_violation"
    ELSE "ok"

\* INSERT INTO messages (sender_id, receiver_id, content) by uid; is_read and
\* created_at take their defaults.
InsertMessage(uid, sender_id, receiver_id) ==
    LET m == [id |-> nextId, sender_id |-> sender_id, receiver_id |-> receiver_id,
              is_read |-> FALSE, created_at |-> now]
        res == InsertMessageResult(uid, m)
    IN  /\ nextId <= MaxMsgs
        /\ messages' = IF res = "ok" THEN messages \cup {m} ELSE messages
        /\ nextId' = IF res = "ok" THEN nextId + 1 ELSE nextId
        /\ last' = MessageAnswer("insert_message", uid, sender_id, receiver_id, 0,
                                 res, {}, {})
        /\ UNCHANGED <<directoryVars, job_applications, group_job_applications,
                       now, screenVars,
                       clientVars>>

\* The SET clause of an update of messages: row m with column set to value.
SetMessageColumn(m, column, value) == [m EXCEPT ![column] = value]

\* UPDATE messages SET column = value WHERE id = ..  by uid.  Rows the USING
\* expression hides from uid are not touched; a row that fails the check as
\* updated, or a foreign key, makes the statement fail.
UpdateMessage(uid, id, column, value) ==
    LET hit == {m \in messages :
                    m.id = id /\ UsersCanUpdateTheirOwnMessages(uid, m)}
        new == {SetMessageColumn(m, column, value) : m \in hit}
        res == IF hit = {} THEN "no_rows"
               ELSE IF \E m \in new : ~UsersCanUpdateTheirOwnMessages(uid, m)
                    THEN "rls_violation"
               ELSE IF \E m \in new : ~MessagesForeignKeys(m)
                    THEN "fk_violation"
               ELSE "ok"
    IN  /\ messages' = IF res = "ok" THEN (messages \ hit) \cup new
                                     ELSE messages
        /\ last' = MessageAnswer("update_message", uid, "", "", id, res, {}, {})
        /\ UNCHANGED <<directoryVars, job_applications, group_job_applications,
                       now, nextId, screenVars,
                       clientVars>>

UpdateMessageIsRead(uid, id, is_read) ==
    UpdateMessage(uid, id, "is_read", is_read)

UpdateMessageSender(uid, id, sender_id) ==
    UpdateMessage(uid, id, "sender_id", sender_id)

UpdateMessageReceiver(uid, id, receiver_id) ==
    UpdateMessage(uid, id, "receiver_id", receiver_id)

\* SELECT * FROM messages by uid.
SelectMessages(uid) ==
    /\ last' = MessageAnswer("select_messages", uid, "", "", 0, "ok",
                             {m \in messages : UsersCanReadTheirOwnMessages(uid, m)},
                             {})
    /\ UNCHANGED <<directoryVars, job_applications, group_job_applications,
                   messageVars, nextId, screenVars,
                   clientVars>>

\* NOW() moves on.
Tick ==
    /\ now < MaxTime
    /\ now' = now + 1
    /\ UNCHANGED <<directoryVars, job_applications, group_job_applications,
                   messages, nextId, last, screenVars,
                   clientVars>>

\* ------------------------------------------------------- messages functions
\* get_conversation with the second disjunct of its WHERE left out: only what
\* user1_id sent to user2_id.
get_conversation_sent(user1_id, user2_id) ==
    {m \in messages :
        /\ m.sender_id \in DOMAIN user_profiles
        /\ m.receiver_id \in DOMAIN user_profiles
        /\ m.sender_id = user1_id /\ m.receiver_id = user2_id}

\* get_conversation(user1_id, user2_id): SECURITY DEFINER, so the policies of
\* messages do not filter its rows.  These are the rows of the result; the
\* order is that of OrderByCreatedAtAsc.
get_conversation(user1_id, user2_id) ==
    {m \in messages :
        /\ m.sender_id \in DOMAIN user_profiles
        /\ m.receiver_id \in DOMAIN user_profiles
        /\ \/ (m.sender_id = user1_id /\ m.receiver_id = user2_id)
           \/ (m.sender_id = user2_id /\ m.receiver_id = user1_id)}

\* WITH conversation_partners AS (SELECT DISTINCT CASE ..)
conversation_partners(user_id) ==
    {IF m.sender_id = user_id THEN m.receiver_id ELSE m.sender_id :
        m \in {x \in messages : x.sender_id = user_id \/ x.receiver_id = user_id}}

\* The rows LEFT JOIN LATERAL (.. ORDER BY created_at DESC LIMIT 1) may yield
\* for a partner: any row of the pair with the greatest created_at.
last_messages(user_id, other_user_id) ==
    LET between == {m \in messages :
                        \/ (m.sender_id = user_id /\ m.receiver_id = other_user_id)
                        \/ (m.sender_id = other_user_id /\ m.receiver_id = user_id)}
    IN  {m \in between : \A o \in between : o.created_at <= m.created_at}

\* unread_counts AS (SELECT receiver_id as other_user_id, COUNT(*) ..
\*   WHERE receiver_id = user_id AND is_read = FALSE GROUP BY receiver_id)
unread_counts(user_id) ==
    LET unread == {m \in messages : m.receiver_id = user_id /\ m.is_read = FALSE}
    IN  {[other_user_id |-> rid,
          unread_count |-> Cardinality({m \in unread : m.receiver_id = rid})] :
            rid \in {m.receiver_id : m \in unread}}

\* COALESCE(uc.unread_count, 0) of LEFT JOIN unread_counts uc
\*   ON lm.other_user_id = uc.other_user_id
unread_count(user_id, other_user_id) ==
    LET uc == {u \in unread_counts(user_id) : u.other_user_id = other_user_id}
    IN  IF uc = {} THEN 0 ELSE (CHOOSE u \in uc : TRUE).unread_count

\* The rows of get_user_conversations(user_id), lm[o] being the row LIMIT 1
\* kept for partner o.  (The rows; their order is last_message_time
\* descending.)
get_user_conversations(user_id, lm) ==
    {[other_user_id |-> o,
      last_message |-> lm[o].id,
      last_message_time |-> lm[o].created_at,
      unread_count |-> unread_count(user_id, o)] :
        o \in conversation_partners(user_id) \cap DOMAIN user_profiles}

\* ORDER BY m.created_at ASC: the sequences that hold each of rows once with
\* created_at not decreasing.  Rows of one created_at come in any order.
OrderByCreatedAtAsc(rows) ==
    {s \in [1..Cardinality(rows) -> rows] :
        /\ \A i \in DOMAIN s : \A j \in DOMAIN s : i # j => s[i] # s[j]
        /\ \A i \in DOMAIN s : \A j \in DOMAIN s :
               i < j => s[i].created_at <= s[j].created_at}

\* supabase.rpc("get_conversation", ..) by uid.
GetConversation(uid, user1_id, user2_id) ==
    /\ \E thread \in OrderByCreatedAtAsc(get_conversation(user1_id, user2_id)) :
           last' = [MessageAnswer("get_conversation", uid, user1_id, user2_id, 0,
                                  "ok", get_conversation(user1_id, user2_id), {})
                       EXCEPT !.thread = thread]
    /\ UNCHANGED <<directoryVars, job_applications, group_job_applications,
                   messageVars, nextId, screenVars,
                   clientVars>>

\* The rows in any order at all.
Unordered(rows) ==
    {s \in [1..Cardinality(rows) -> rows] :
        \A i \in DOMAIN s : \A j \in DOMAIN s : i # j => s[i] # s[j]}

\* ORDER BY lm.last_message_time DESC: the sequences that hold each of rows
\* once with last_message_time not increasing.  Rows of one time come in any
\* order.
OrderByLastMessageTimeDesc(rows) ==
    {s \in [1..Cardinality(rows) -> rows] :
        /\ \A i \in DOMAIN s : \A j \in DOMAIN s : i # j => s[i] # s[j]
        /\ \A i \in DOMAIN s : \A j \in DOMAIN s :
               i < j => s[i].last_message_time >= s[j].last_message_time}

\* supabase.rpc("get_user_conversations", ..) by uid: the answer's rows are
\* in conversations, and in thread in the order of the result.
GetUserConversations(uid, user_id) ==
    \E lm \in [conversation_partners(user_id) -> messages] :
        /\ \A o \in DOMAIN lm : lm[o] \in last_messages(user_id, o)
        /\ \E result \in OrderByLastMessageTimeDesc(
                              get_user_conversations(user_id, lm)) :
               last' = [MessageAnswer("get_user_conversations", uid, user_id, "",
                                     0, "ok", {lm[o] : o \in DOMAIN lm},
                                     get_user_conversations(user_id, lm))
                           EXCEPT !.thread = result]
        /\ UNCHANGED <<directoryVars, job_applications, group_job_applications,
                       messageVars, nextId, screenVars,
                       clientVars>>

\* The update with the filter on the sender left out: every unread message
\* user received.
markAllMessagesAsRead(user, otherUserId) ==
    {m \in messages :
        /\ UsersCanUpdateTheirOwnMessages(user, m)
        /\ m.receiver_id = user
        /\ m.is_read = FALSE}

\* markMessagesAsRead: the rows of .eq("receiver_id", user.id)
\* .eq("sender_id", otherUserId).eq("is_read", false) that the UPDATE policy
\* lets user update.
markMessagesAsRead(user, otherUserId) ==
    {m \in messages :
        /\ UsersCanUpdateTheirOwnMessages(user, m)
        /\ m.receiver_id = user
        /\ m.sender_id = otherUserId
        /\ m.is_read = FALSE}

\* ChatScreen.markMessagesAsRead of the signed-in profile user in the chat
\* with otherUserId: .update({ is_read: true }) on those rows.  The handler
\* does not look at the answer.
MarkMessagesAsRead(user, otherUserId) ==
    LET hit == markMessagesAsRead(user, otherUserId)
        new == {SetMessageColumn(m, "is_read", TRUE) : m \in hit}
        res == IF \E m \in new : ~UsersCanUpdateTheirOwnMessages(user, m)
               THEN "rls_violation" ELSE "ok"
    IN  /\ messages' = IF res = "ok" THEN (messages \ hit) \cup new ELSE messages
        /\ last' = MessageAnswer("markMessagesAsRead", user, user, otherUserId, 0,
                                 res, {}, {})
        /\ UNCHANGED <<directoryVars, job_applications, group_job_applications,
                       now, nextId, screenVars,
                       clientVars>>

\* --------------------------------------------------------- the message store
InitMessages ==
    /\ Posted
    /\ last = NoMessageRequest

NextMessages ==
    \/ \E uid \in Profiles, s \in Profiles, r \in Profiles : InsertMessage(uid, s, r)
    \/ \E uid \in Profiles, id \in 1..MaxMsgs, b \in BOOLEAN :
           UpdateMessageIsRead(uid, id, b)
    \/ \E uid \in Profiles, id \in 1..MaxMsgs, p \in Profiles :
           UpdateMessageSender(uid, id, p)
    \/ \E uid \in Profiles, id \in 1..MaxMsgs, p \in Profiles :
           UpdateMessageReceiver(uid, id, p)
    \/ \E uid \in Profiles : SelectMessages(uid)
    \/ \E uid \in Profiles, u1 \in Profiles, u2 \in Profiles :
           GetConversation(uid, u1, u2)
    \/ \E uid \in Profiles, u \in Profiles : GetUserConversations(uid, u)
    \/ \E u \in Profiles, o \in Profiles : MarkMessagesAsRead(u, o)
    \/ Tick

SpecMessages == InitMessages /\ [][NextMessages]_vars

\* ------------------------------------------------ creating jobs and groups
\* "Venues can insert their own jobs"
VenuesCanInsertTheirOwnJobs(uid, j) == uid = j.venue_id

\* "Users can create groups"
UsersCanCreateGroups(uid, g) == uid = g.created_by

\* "Group creators can add members", evaluated on the groups table gs.
GroupCreatorsCanAddMembers(gs, uid, m) ==
    \E g \in gs : g.id = m.group_id /\ g.created_by = uid

\* The table without its UNIQUE(group_id, user_id) constraint.
GroupMembersNotUnique(m) == TRUE

\* UNIQUE(group_id, user_id)
GroupMembersUnique(m) ==
    ~\E o \in group_members :
        o.id # m.id /\ o.group_id = m.group_id /\ o.user_id = m.user_id

\* gen_random_uuid() for a jobs row, a groups row.
FreshJobId == CHOOSE id \in JobIds : \A j \in jobs : j.id # id
FreshGroupId == CHOOSE id \in GroupIds : \A g \in groups : g.id # id

InsertJobResult(uid, j) ==
    IF ~VenuesCanInsertTheirOwnJobs(uid, j) THEN "rls_violation"
    ELSE IF j.venue_id \notin DOMAIN user_profiles THEN "fk_violation"
    ELSE "ok"

InsertGroupResult(uid, g) ==
    IF ~UsersCanCreateGroups(uid, g) THEN "rls_violation"
    ELSE IF g.created_by \notin DOMAIN user_profiles THEN "fk_violation"
    ELSE "ok"

\* The answer of INSERT INTO group_members for the new row m, gs being the
\* groups table at the time.
InsertGroupMemberResult(gs, uid, m) ==
    IF ~GroupCreatorsCanAddMembers(gs, uid, m) THEN "rls_violation"
    ELSE IF ~GroupMembersUnique(m) THEN "unique_violation"
    ELSE "ok"

\* INSERT INTO jobs (venue_id, ..) by uid.
InsertJob(uid, venue_id) ==
    LET j == [id |-> FreshJobId, venue_id |-> venue_id, status |-> "open"]
        res == InsertJobResult(uid, j)
    IN  /\ \E id \in JobIds : \A o \in jobs : o.id # id
        /\ jobs' = IF res = "ok" THEN jobs \cup {j} ELSE jobs
        /\ last' = Answer("insert_job", uid, j.id, venue_id, 0, res, {})
        /\ UNCHANGED <<accountVars, user_profiles, groups, group_members, job_applications,
                       group_job_applications, messageVars, nextId, screenVars,
                       clientVars>>

\* INSERT INTO groups (created_by, ..) by uid.
InsertGroup(uid, created_by) ==
    LET g == [id |-> FreshGroupId, created_by |-> created_by]
        res == InsertGroupResult(uid, g)
    IN  /\ \E id \in GroupIds : \A o \in groups : o.id # id
        /\ groups' = IF res = "ok" THEN groups \cup {g} ELSE groups
        /\ last' = Answer("insert_group", uid, "", created_by, 0, res, {})
        /\ UNCHANGED <<accountVars, user_profiles, jobs, group_members, job_applications,
                       group_job_applications, messageVars, nextId, screenVars,
                       clientVars>>

\* PostJobScreen.handleSubmit of the signed-in profile user; filled says that
\* title, description, genre, event date and location are not blank.
PostJobHandleSubmit(user, filled) ==
    LET j == [id |-> FreshJobId, venue_id |-> user, status |-> "open"]
        res == InsertJobResult(user, j)
        alert == IF user_profiles[user] # "venue" THEN "Only venues can post jobs"
                 ELSE IF ~filled THEN "Please fill in all required fields"
                 ELSE IF res # "ok" THEN "Failed to post job"
                 ELSE "Job posted successfully!"
    IN  /\ \E id \in JobIds : \A o \in jobs : o.id # id
        /\ jobs' = IF alert = "Job posted successfully!" THEN jobs \cup {j} ELSE jobs
        /\ last' = Answer("post_job", user, j.id, user, 0, alert, {})
        /\ UNCHANGED <<accountVars, user_profiles, groups, group_members, job_applications,
                       group_job_applications, messageVars, nextId, screenVars,
                       clientVars>>

\* handleSubmit as it would be if the failure of the membership insert were
\* thrown into the catch block: the group is inserted and the operation is
\* reported as failed.
CreateGroupHandleSubmitThrowing(user, filled, memberAnswered) ==
    LET g == [id |-> FreshGroupId, created_by |-> user]
        res == InsertGroupResult(user, g)
        m == [id |-> nextId, group_id |-> g.id, user_id |-> user]
        created == user_profiles[user] = "artist" /\ filled /\ res = "ok"
        memberError ==
            IF ~memberAnswered THEN "network_error"
            ELSE InsertGroupMemberResult(groups \cup {g}, user, m)
        alert == IF user_profiles[user] # "artist" THEN "Only artists can create groups"
                 ELSE IF ~filled THEN "Please enter a group name"
                 ELSE IF res # "ok" \/ memberError # "ok" THEN "Failed to create group"
                 ELSE "Group created successfully!"
    IN  /\ \E id \in GroupIds : \A o \in groups : o.id # id
        /\ groups' = IF created THEN groups \cup {g} ELSE groups
        /\ group_members' =
               IF created /\ memberError = "ok" THEN group_members \cup {m}
               ELSE group_members
        /\ nextId' = IF created /\ memberError = "ok" THEN nextId + 1 ELSE nextId
        /\ last' = Answer("create_group", user, "", user, 0, alert,
                          IF created /\ memberError # "ok"
                          THEN {"Group created but failed to add you as member"}
                          ELSE {})
        /\ UNCHANGED <<accountVars, user_profiles, jobs, job_applications,
                       group_job_applications, messageVars, screenVars,
                       clientVars>>

\* CreateGroupScreen.handleSubmit of the signed-in profile user; filled says
\* that the name is not blank, memberAnswered that the second store call (the
\* insert of the creator's membership) reached the store.
CreateGroupHandleSubmit(user, filled, memberAnswered) ==
    LET g == [id |-> FreshGroupId, created_by |-> user]
        res == InsertGroupResult(user, g)
        m == [id |-> nextId, group_id |-> g.id, user_id |-> user]
        created == user_profiles[user] = "artist" /\ filled /\ res = "ok"
        memberError ==
            IF ~memberAnswered THEN "network_error"
            ELSE InsertGroupMemberResult(groups \cup {g}, user, m)
        alert == IF user_profiles[user] # "artist" THEN "Only artists can create groups"
                 ELSE IF ~filled THEN "Please enter a group name"
                 ELSE IF res # "ok" THEN "Failed to create group"
                 ELSE "Group created successfully!"
    IN  /\ \E id \in GroupIds : \A o \in groups : o.id # id
        /\ groups' = IF created THEN groups \cup {g} ELSE groups
        /\ group_members' =
               IF created /\ memberError = "ok" THEN group_members \cup {m}
               ELSE group_members
        /\ nextId' = IF created /\ memberError = "ok" THEN nextId + 1 ELSE nextId
        /\ last' = Answer("create_group", user, "", user, 0, alert,
                          IF created /\ memberError # "ok"
                          THEN {"Group created but failed to add you as member"}
                          ELSE {})
        /\ UNCHANGED <<accountVars, user_profiles, jobs, job_applications,
                       group_job_applications, messageVars, screenVars,
                       clientVars>>

InitCreate ==
    /\ SignedUp
    /\ jobs = {}
    /\ groups = {}
    /\ group_members = {}
    /\ last = NoRequest

NextCreate ==
    \/ \E uid \in Profiles, v \in Profiles : InsertJob(uid, v)
    \/ \E uid \in Profiles, c \in Profiles : InsertGroup(uid, c)
    \/ \E u \in Profiles, filled \in BOOLEAN : PostJobHandleSubmit(u, filled)
    \/ \E u \in Profiles, filled \in BOOLEAN, answered \in BOOLEAN :
           CreateGroupHandleSubmit(u, filled, answered)

SpecCreate == InitCreate /\ [][NextCreate]_vars

\* ------------------------------------------------------------ group_members
\* "Group creators can remove members"
GroupCreatorsCanRemoveMembers(uid, m) ==
    \E g \in groups : g.id = m.group_id /\ g.created_by = uid

\* The policy with every member of the group admitted: a member may delete
\* any membership of the group.
MembersCanRemoveMembers(uid, m) ==
    \E o \in group_members : o.group_id = m.group_id /\ o.user_id = uid

\* "Users can leave groups"
UsersCanLeaveGroups(uid, m) == uid = m.user_id

\* The DELETE policies of group_members are permissive: a row can be deleted
\* when one of them holds.
GroupMembersDeletePolicy(uid, m) ==
    \/ GroupCreatorsCanRemoveMembers(uid, m)
    \/ UsersCanLeaveGroups(uid, m)

\* group_id REFERENCES groups(id), user_id REFERENCES auth.users(id)
GroupMembersForeignKeys(m) ==
    /\ \E g \in groups : g.id = m.group_id
    /\ m.user_id \in DOMAIN user_profiles

\* INSERT INTO group_members (group_id, user_id, role) by uid.
InsertGroupMember(uid, group_id, user_id) ==
    LET m == [id |-> nextId, group_id |-> group_id, user_id |-> user_id]
        res == IF InsertGroupMemberResult(groups, uid, m) # "ok"
                   THEN InsertGroupMemberResult(groups, uid, m)
               ELSE IF ~GroupMembersForeignKeys(m) THEN "fk_violation"
               ELSE "ok"
    IN  /\ nextId <= MaxRows
        /\ group_members' = IF res = "ok" THEN group_members \cup {m}
                                          ELSE group_members
        /\ nextId' = IF res = "ok" THEN nextId + 1 ELSE nextId
        /\ last' = Answer("insert_group_member", uid, "", user_id, 0, res,
                          {[group_id |-> group_id, user_id |-> user_id]})
        /\ UNCHANGED <<accountVars, user_profiles, jobs, groups, job_applications,
                       group_job_applications, messageVars, screenVars,
                       clientVars>>

\* DELETE FROM group_members WHERE group_id = .. AND user_id IN (..)  by uid:
\* the rows the DELETE policies hide from uid stay, and that is no error.
DeleteGroupMembers(uid, group_id, user_ids) ==
    LET hit == {m \in group_members :
                    /\ m.group_id = group_id
                    /\ m.user_id \in user_ids
                    /\ GroupMembersDeletePolicy(uid, m)}
    IN  /\ group_members' = group_members \ hit
        /\ last' = Answer("delete_group_members", uid, "", "", 0,
                          IF hit = {} THEN "no_rows" ELSE "ok",
                          {[group_id |-> group_id, user_id |-> u] : u \in user_ids})
        /\ UNCHANGED <<accountVars, user_profiles, jobs, groups, job_applications,
                       group_job_applications, messageVars, nextId, screenVars,
                       clientVars>>

\* ----------------------------------------------------------- the group store
InitGroups ==
    /\ Posted
    /\ last = NoRequest

NextGroups ==
    \/ \E uid \in Profiles, g \in GroupIds, u \in Profiles :
           InsertGroupMember(uid, g, u)
    \/ \E uid \in Profiles, g \in GroupIds, us \in (SUBSET Profiles) \ {{}} :
           DeleteGroupMembers(uid, g, us)
    \/ \E uid \in Profiles, j \in JobIds, g \in GroupIds :
           InsertGroupJobApplication(uid, j, g, "pending")
    \/ \E uid \in Profiles, id \in 1..MaxRows, st \in Status :
           UpdateGroupJobApplication(uid, id, st)

SpecGroups == InitGroups /\ [][NextGroups]_vars

\* ------------------------------------------------ identities and profiles
\* The requester: auth.uid() is NULL and auth.role() is 'anon' without a
\* session.
auth_uid(requester) == IF requester = Anon THEN Null ELSE requester
auth_role(requester) == IF requester = Anon THEN "anon" ELSE "authenticated"

\* a = b of SQL as a condition: not true when either side is NULL.
SqlEquals(a, b) == a # Null /\ b # Null /\ a = b

\* CHECK (user_type IN ('artist', 'venue'))
UserTypeCheck(user_type) == user_type \in {"artist", "venue"}

\* "Users can insert their own profile"
UsersCanInsertTheirOwnProfile(requester, id) == SqlEquals(auth_uid(requester), id)

\* "Users can update their own profile"
UsersCanUpdateTheirOwnProfile(requester, id) == SqlEquals(auth_uid(requester), id)

\* "Users can delete their own profile"
UsersCanDeleteTheirOwnProfile(requester, id) == SqlEquals(auth_uid(requester), id)

\* The rows left in each table when the user_profiles rows of ids are
\* deleted: ON DELETE CASCADE of jobs.venue_id, job_applications.artist_id
\* and job_id, group_job_applications.job_id, messages.sender_id and
\* receiver_id; ON DELETE SET NULL of venues.owner_id.
ProfilesWithout(ids) ==
    [p \in DOMAIN user_profiles \ ids |-> user_profiles[p]]
JobsWithout(ids) == {j \in jobs : j.venue_id \notin ids}
JobApplicationsWithout(ids) ==
    {r \in job_applications :
        /\ r.artist_id \notin ids
        /\ \E j \in JobsWithout(ids) : j.id = r.job_id}
GroupJobApplicationsWithout(ids, gs) ==
    {r \in group_job_applications :
        /\ \E j \in JobsWithout(ids) : j.id = r.job_id
        /\ \E g \in gs : g.id = r.group_id}
MessagesWithout(ids) ==
    {m \in messages : m.sender_id \notin ids /\ m.receiver_id \notin ids}
VenuesWithout(ids) ==
    {IF v.owner_id \in ids THEN [v EXCEPT !.owner_id = Null] ELSE v : v \in venues}
UserMediaWithout(ids) == {m \in user_media : m.user_id \notin ids}

\* handle_new_user: the user_type of the profile the trigger inserts for the
\* metadata of the new identity (Null: the metadata has no user_type).
handle_new_user(user_type) == IF user_type = Null THEN "artist" ELSE user_type

\* supabase.auth.signUp: INSERT INTO auth.users of a new identity id, with the
\* trigger on_auth_user_created in the same transaction: when the trigger's
\* insert fails, no identity is created.
SignUp(id, user_type) ==
    LET res == IF id \in DOMAIN user_profiles THEN "unique_violation"
               ELSE IF ~UserTypeCheck(handle_new_user(user_type))
                    THEN "check_violation"
               ELSE "ok"
    IN  /\ id \notin auth_users
        /\ auth_users' = IF res = "ok" THEN auth_users \cup {id} ELSE auth_users
        /\ user_profiles' =
               IF res = "ok"
               THEN [p \in DOMAIN user_profiles \cup {id} |->
                        IF p = id THEN handle_new_user(user_type)
                        ELSE user_profiles[p]]
               ELSE user_profiles
        /\ last' = Answer("signUp", id, "", id, 0, res, {})
        /\ UNCHANGED <<venues, jobs, groups, group_members, job_applications,
                       group_job_applications, messageVars, nextId, screenVars,
                       user_media, clientVars>>

\* The identity service deletes the identity id: ON DELETE CASCADE of
\* user_profiles.id, groups.created_by and group_members.user_id, and what
\* cascades from those.
DeleteIdentity(id) ==
    LET gs == {g \in groups : g.created_by # id}
    IN  /\ id \in auth_users
        /\ auth_users' = auth_users \ {id}
        /\ user_profiles' = ProfilesWithout({id})
        /\ jobs' = JobsWithout({id})
        /\ job_applications' = JobApplicationsWithout({id})
        /\ groups' = gs
        /\ group_members' =
               {m \in group_members :
                   m.user_id # id /\ \E g \in gs : g.id = m.group_id}
        /\ group_job_applications' = GroupJobApplicationsWithout({id}, gs)
        /\ messages' = MessagesWithout({id})
        /\ venues' = VenuesWithout({id})
        /\ user_media' = UserMediaWithout({id})
        /\ last' = Answer("delete_identity", "", "", id, 0, "ok", {})
        /\ UNCHANGED <<now, nextId, screenVars, clientVars>>

\* INSERT INTO user_profiles (id, user_type, ..) by requester.
InsertProfile(requester, id, user_type) ==
    LET res == IF ~UsersCanInsertTheirOwnProfile(requester, id) THEN "rls_violation"
               ELSE IF id \in DOMAIN user_profiles THEN "unique_violation"
               ELSE IF id \notin auth_users THEN "fk_violation"
               ELSE IF ~UserTypeCheck(user_type) THEN "check_violation"
               ELSE "ok"
    IN  /\ user_profiles' =
               IF res = "ok"
               THEN [p \in DOMAIN user_profiles \cup {id} |->
                        IF p = id THEN user_type ELSE user_profiles[p]]
               ELSE user_profiles
        /\ last' = Answer("insert_profile", requester, "", id, 0, res, {})
        /\ UNCHANGED <<accountVars, jobs, groups, group_members, job_applications,
                       group_job_applications, messageVars, nextId, screenVars,
                       clientVars>>

\* UPDATE user_profiles SET user_type = .. WHERE id = ..  by requester
\* (AuthContext.updateProfile sends it for the requester's own id).
UpdateProfile(requester, id, user_type) ==
    LET hit == {p \in DOMAIN user_profiles :
                    p = id /\ UsersCanUpdateTheirOwnProfile(requester, p)}
        res == IF hit = {} THEN "no_rows"
               ELSE IF ~UserTypeCheck(user_type) THEN "check_violation"
               ELSE "ok"
    IN  /\ user_profiles' =
               IF res = "ok"
               THEN [p \in DOMAIN user_profiles |->
                        IF p \in hit THEN user_type ELSE user_profiles[p]]
               ELSE user_profiles
        /\ last' = Answer("update_profile", requester, "", id, 0, res, {})
        /\ UNCHANGED <<accountVars, jobs, groups, group_members, job_applications,
                       group_job_applications, messageVars, nextId, screenVars,
                       clientVars>>

\* DELETE FROM user_profiles WHERE id = ..  by requester, with the cascades.
DeleteProfile(requester, id) ==
    LET hit == {p \in DOMAIN user_profiles :
                    p = id /\ UsersCanDeleteTheirOwnProfile(requester, p)}
    IN  /\ user_profiles' = ProfilesWithout(hit)
        /\ jobs' = JobsWithout(hit)
        /\ job_applications' = JobApplicationsWithout(hit)
        /\ group_job_applications' = GroupJobApplicationsWithout(hit, groups)
        /\ messages' = MessagesWithout(hit)
        /\ venues' = VenuesWithout(hit)
        /\ user_media' = UserMediaWithout(hit)
        /\ last' = Answer("delete_profile", requester, "", id, 0,
                          IF hit = {} THEN "no_rows" ELSE "ok", {})
        /\ UNCHANGED <<auth_users, groups, group_members, now, nextId, screenVars,
                       clientVars>>

\* ------------------------------------------------------------------ venues
VenueNames == {"Motorco", "Pinhook"}

\* "Allow authenticated users to insert venues"
AllowAuthenticatedUsersToInsertVenues(requester) ==
    auth_role(requester) = "authenticated"

\* The UPDATE policy as the venues script had it before the auth script
\* replaced it: "Allow authenticated users to update venues".
AllowAuthenticatedUsersToUpdateVenues(requester, v) ==
    auth_role(requester) = "authenticated"

\* "Allow venue owners to update their venues": USING only, so the expression
\* is applied to the row as updated too.
AllowVenueOwnersToUpdateTheirVenues(requester, v) ==
    SqlEquals(auth_uid(requester), v.owner_id)

\* "Allow venue owners to delete their venues"
AllowVenueOwnersToDeleteTheirVenues(requester, v) ==
    SqlEquals(auth_uid(requester), v.owner_id)

\* owner_id REFERENCES user_profiles(id)
VenuesForeignKeys(v) == v.owner_id = Null \/ v.owner_id \in DOMAIN user_profiles

\* INSERT INTO venues (name, owner_id, ..) by requester (ModalScreen.onSubmit
\* sends it with the requester's own id as owner_id).
InsertVenue(requester, name, owner_id) ==
    LET v == [id |-> nextId, name |-> name, owner_id |-> owner_id]
        res == IF ~AllowAuthenticatedUsersToInsertVenues(requester)
                   THEN "rls_violation"
               ELSE IF ~VenuesForeignKeys(v) THEN "fk_violation"
               ELSE "ok"
    IN  /\ nextId <= MaxRows
        /\ venues' = IF res = "ok" THEN venues \cup {v} ELSE venues
        /\ nextId' = IF res = "ok" THEN nextId + 1 ELSE nextId
        /\ last' = Answer("insert_venue", requester, "", owner_id, 0, res, {})
        /\ UNCHANGED <<auth_users, user_profiles, jobs, groups, group_members,
                       job_applications, group_job_applications, messageVars,
                       screenVars,
                       user_media, clientVars>>

\* UPDATE venues SET column = value WHERE id = ..  by requester.
UpdateVenue(requester, id, column, value) ==
    LET hit == {v \in venues :
                    v.id = id /\ AllowVenueOwnersToUpdateTheirVenues(requester, v)}
        new == {[v EXCEPT ![column] = value] : v \in hit}
        res == IF hit = {} THEN "no_rows"
               ELSE IF \E v \in new :
                          ~AllowVenueOwnersToUpdateTheirVenues(requester, v)
                    THEN "rls_violation"
               ELSE IF \E v \in new : ~VenuesForeignKeys(v) THEN "fk_violation"
               ELSE "ok"
    IN  /\ venues' = IF res = "ok" THEN (venues \ hit) \cup new ELSE venues
        /\ last' = Answer("update_venue", requester, "", "", id, res, {})
        /\ UNCHANGED <<auth_users, user_profiles, jobs, groups, group_members,
                       job_applications, group_job_applications, messageVars,
                       nextId, screenVars,
                       user_media, clientVars>>

\* DELETE FROM venues WHERE id = ..  by requester.
DeleteVenue(requester, id) ==
    LET hit == {v \in venues :
                    v.id = id /\ AllowVenueOwnersToDeleteTheirVenues(requester, v)}
    IN  /\ venues' = venues \ hit
        /\ last' = Answer("delete_venue", requester, "", "", id,
                          IF hit = {} THEN "no_rows" ELSE "ok", {})
        /\ UNCHANGED <<auth_users, user_profiles, jobs, groups, group_members,
                       job_applications, group_job_applications, messageVars,
                       nextId, screenVars,
                       user_media, clientVars>>

\* -------------------------------------------------------- the account store
\* The identities a1 (artist) and v1 (venue) have signed up, v2 has not; the
\* venue directory has a venue of the seed data, which has no owner; v1
\* posted j1, a1 created g1.
InitAccounts ==
    /\ auth_users = {"a1", "v1"}
    /\ user_profiles = [p \in {"a1", "v1"} |-> IF p = "a1" THEN "artist" ELSE "venue"]
    /\ venues = {[id |-> 0, name |-> "Motorco", owner_id |-> Null]}
    /\ user_media = {}
    /\ AuthProviderInit
    /\ jobs = {[id |-> "j1", venue_id |-> "v1", status |-> "open"]}
    /\ groups = {[id |-> "g1", created_by |-> "a1"]}
    /\ group_members = {[id |-> 0, group_id |-> "g1", user_id |-> "a1"]}
    /\ job_applications = {}
    /\ group_job_applications = {}
    /\ messages = {}
    /\ now = 0
    /\ nextId = 1
    /\ applications = [u \in Profiles |-> {}]
    /\ screenJobs = [u \in Profiles |-> {}]
    /\ calls = <<>>
    /\ last = NoRequest

NextAccounts ==
    \/ \E id \in Profiles, t \in {"artist", "venue", "admin", Null} : SignUp(id, t)
    \/ \E id \in Profiles : DeleteIdentity(id)
    \/ \E r \in auth_users \cup {Anon}, id \in Profiles, t \in {"artist", "admin"} :
           InsertProfile(r, id, t)
    \/ \E r \in auth_users \cup {Anon}, id \in Profiles, t \in {"venue", "admin"} :
           UpdateProfile(r, id, t)
    \/ \E r \in auth_users \cup {Anon}, id \in Profiles : DeleteProfile(r, id)

SpecAccounts == InitAccounts /\ [][NextAccounts]_vars

\* -------------------------------------------------------- the venue directory
\* The store of InitAccounts; the profiles add, change and delete venues, and
\* delete their profiles.
InitVenues == InitAccounts

NextVenues ==
    \/ \E r \in auth_users \cup {Anon}, o \in Profiles \cup {Null} :
           InsertVenue(r, "Motorco", o)
    \/ \E r \in auth_users \cup {Anon}, id \in 0..MaxRows, n \in VenueNames :
           UpdateVenue(r, id, "name", n)
    \/ \E r \in auth_users \cup {Anon}, id \in 0..MaxRows,
              o \in Profiles \cup {Null} : UpdateVenue(r, id, "owner_id", o)
    \/ \E r \in auth_users \cup {Anon}, id \in 0..MaxRows : DeleteVenue(r, id)
    \/ \E r \in auth_users \cup {Anon}, id \in Profiles : DeleteProfile(r, id)

SpecVenues == InitVenues /\ [][NextVenues]_vars

\* ------------------------------------------------- jobs and groups: the rest
\* "Venues can update their own jobs": USING only, so the expression is
\* applied to the row as updated too.
VenuesCanUpdateTheirOwnJobs(uid, j) == uid = j.venue_id

\* The DELETE policy of jobs written like its SELECT policy: USING (true).
AnyoneCanDeleteJobs(uid, j) == TRUE

\* "Venues can delete their own jobs"
VenuesCanDeleteTheirOwnJobs(uid, j) == uid = j.venue_id

\* "Group creators can update their groups"
GroupCreatorsCanUpdateTheirGroups(uid, g) == uid = g.created_by

\* "Group creators can delete their groups"
GroupCreatorsCanDeleteTheirGroups(uid, g) == uid = g.created_by

\* UPDATE jobs SET venue_id = .. WHERE id = ..  by uid.
UpdateJob(uid, id, venue_id) ==
    LET hit == {j \in jobs : j.id = id /\ VenuesCanUpdateTheirOwnJobs(uid, j)}
        new == {[j EXCEPT !.venue_id = venue_id] : j \in hit}
        res == IF hit = {} THEN "no_rows"
               ELSE IF \E j \in new : ~VenuesCanUpdateTheirOwnJobs(uid, j)
                    THEN "rls_violation"
               ELSE IF venue_id \notin DOMAIN user_profiles THEN "fk_violation"
               ELSE "ok"
    IN  /\ jobs' = IF res = "ok" THEN (jobs \ hit) \cup new ELSE jobs
        /\ last' = Answer("update_job", uid, id, venue_id, 0, res, {})
        /\ UNCHANGED <<accountVars, user_profiles, groups, group_members,
                       job_applications, group_job_applications, messageVars,
                       nextId, screenVars,
                       clientVars>>

\* The job_applications rows left when the jobs rows gone are deleted
\* (job_id ... ON DELETE CASCADE); the mutant leaves them all.
JobApplicationsOfDeletedJobsKept(gone) == job_applications

JobApplicationsWithoutJobs(gone) ==
    {r \in job_applications : ~\E j \in gone : j.id = r.job_id}

\* DELETE FROM jobs WHERE id = ..  by uid, with the cascades to
\* job_applications and group_job_applications.
DeleteJob(uid, id) ==
    LET hit == {j \in jobs : j.id = id /\ VenuesCanDeleteTheirOwnJobs(uid, j)}
    IN  /\ jobs' = jobs \ hit
        /\ job_applications' = JobApplicationsWithoutJobs(hit)
        /\ group_job_applications' =
               {r \in group_job_applications : ~\E j \in hit : j.id = r.job_id}
        /\ last' = Answer("delete_job", uid, id, "", 0,
                          IF hit = {} THEN "no_rows" ELSE "ok", {})
        /\ UNCHANGED <<accountVars, user_profiles, groups, group_members,
                       messageVars, nextId, screenVars,
                       clientVars>>

\* UPDATE groups SET created_by = .. WHERE id = ..  by uid.
UpdateGroup(uid, id, created_by) ==
    LET hit == {g \in groups : g.id = id /\ GroupCreatorsCanUpdateTheirGroups(uid, g)}
        new == {[g EXCEPT !.created_by = created_by] : g \in hit}
        res == IF hit = {} THEN "no_rows"
               ELSE IF \E g \in new : ~GroupCreatorsCanUpdateTheirGroups(uid, g)
                    THEN "rls_violation"
               ELSE IF created_by \notin auth_users THEN "fk_violation"
               ELSE "ok"
    IN  /\ groups' = IF res = "ok" THEN (groups \ hit) \cup new ELSE groups
        /\ last' = Answer("update_group", uid, "", id, 0, res, {})
        /\ UNCHANGED <<accountVars, user_profiles, jobs, group_members,
                       job_applications, group_job_applications, messageVars,
                       nextId, screenVars,
                       clientVars>>

\* DELETE FROM groups WHERE id = ..  by uid, with the cascades to
\* group_members and group_job_applications.
DeleteGroup(uid, id) ==
    LET hit == {g \in groups : g.id = id /\ GroupCreatorsCanDeleteTheirGroups(uid, g)}
    IN  /\ groups' = groups \ hit
        /\ group_members' =
               {m \in group_members : ~\E g \in hit : g.id = m.group_id}
        /\ group_job_applications' =
               {r \in group_job_applications : ~\E g \in hit : g.id = r.group_id}
        /\ last' = Answer("delete_group", uid, "", id, 0,
                          IF hit = {} THEN "no_rows" ELSE "ok", {})
        /\ UNCHANGED <<accountVars, user_profiles, jobs, job_applications,
                       messageVars, nextId, screenVars,
                       clientVars>>

\* ----------------------------------------------------------- the whole store
\* Every mutation of jobs, job_applications, groups, group_members,
\* group_job_applications and messages, and the delete of a profile, by any
\* profile.
StoreUsers == {"a1", "v1"}

InitStore ==
    /\ Posted
    /\ last = NoRequest

NextStore ==
    \/ \E uid \in Profiles : InsertJob(uid, "v1")
    \/ \E uid \in Profiles, j \in JobIds : UpdateJob(uid, j, "v1")
    \/ \E uid \in Profiles, j \in JobIds : DeleteJob(uid, j)
    \/ \E uid \in Profiles, j \in JobIds :
           InsertJobApplication(uid, j, "a1", "pending")
    \/ \E uid \in Profiles, id \in 1..MaxRows :
           UpdateJobApplication(uid, id, "accepted")
    \/ \E uid \in Profiles : InsertGroup(uid, "a1")
    \/ \E uid \in Profiles, g \in GroupIds : UpdateGroup(uid, g, "a1")
    \/ \E uid \in Profiles, g \in GroupIds : DeleteGroup(uid, g)
    \/ \E uid \in Profiles, g \in GroupIds : InsertGroupMember(uid, g, "v1")
    \/ \E uid \in Profiles, g \in GroupIds, u \in StoreUsers :
           DeleteGroupMembers(uid, g, {u})
    \/ \E uid \in Profiles, j \in JobIds, g \in GroupIds :
           InsertGroupJobApplication(uid, j, g, "pending")
    \/ \E uid \in Profiles, id \in 1..MaxRows :
           UpdateGroupJobApplication(uid, id, "accepted")
    \/ \E uid \in Profiles, r \in StoreUsers : InsertMessage(uid, "v1", r)
    \/ \E uid \in Profiles, id \in 1..MaxMsgs : UpdateMessageIsRead(uid, id, TRUE)
    \/ \E uid \in Profiles, id \in StoreUsers : DeleteProfile(uid, id)

SpecStore == InitStore /\ [][NextStore]_vars

\* ------------------------------------------------------------- JobsScreen
\* The profiles that have the JobsScreen open: the artist a1 and the venue v1.
ScreenUsers == {"a1", "v1"}

\* fetchApplications: the rows of table the store returns to user for
\* .from("job_applications").select("*").eq("artist_id", user.id)
fetchApplications(table, user) ==
    {r \in table : JobApplicationsSelectPolicy(user, r) /\ r.artist_id = user}

\* fetchVenueJobs: the applications embedded in the jobs the store returns to
\* user for .from("jobs").select(.. applications:job_applications(..))
\* .eq("venue_id", user.id)
fetchVenueJobs(table, user) ==
    {r \in table :
        /\ JobApplicationsSelectPolicy(user, r)
        /\ \E j \in jobs : j.id = r.job_id /\ j.venue_id = user}

\* The alert handleApply shows for the answer of its insert.
handleApplyAlert(error) ==
    IF error = "ok" THEN "Application submitted successfully!"
    ELSE "Failed to apply for job"

\* The alert handleApplicationStatus shows for the answer of its update.
handleApplicationStatusAlert(error, status) ==
    IF error = "ok" THEN <<"Application", status, "successfully!">>
    ELSE <<"Failed to update application status">>

\* A store call as made: not answered yet, no alert shown.
Call(handler, user, job, id, status) ==
    [handler |-> handler, user |-> user, job |-> job, id |-> id,
     status |-> status, error |-> "sent", alert |-> <<>>,
     inflight |-> {n \in DOMAIN calls : calls[n].error = "sent"}]

\* useEffect / onRefresh of an artist: fetchApplications()
FetchApplications(user) ==
    /\ user_profiles[user] = "artist"
    /\ applications' =
           [applications EXCEPT ![user] = fetchApplications(job_applications, user)]
    /\ UNCHANGED <<directoryVars, job_applications, group_job_applications,
                   messageVars, nextId, last, screenJobs, calls,
                   clientVars>>

\* useEffect / onRefresh of a venue: fetchVenueJobs()
FetchVenueJobs(user) ==
    /\ user_profiles[user] = "venue"
    /\ screenJobs' =
           [screenJobs EXCEPT ![user] = fetchVenueJobs(job_applications, user)]
    /\ UNCHANGED <<directoryVars, job_applications, group_job_applications,
                   messageVars, nextId, last, applications, calls,
                   clientVars>>

\* handleApply(jobId) up to its await: the two checks, then the insert is sent.
HandleApply(user, jobId) ==
    LET alert ==
            IF user_profiles[user] # "artist"
                THEN <<"Only artists can apply for jobs">>
            ELSE IF \E app \in applications[user] : app.job_id = jobId
                THEN <<"You have already applied for this job">>
            ELSE <<>>
    IN  /\ Len(calls) < MaxCalls
        /\ calls' = IF alert = <<>>
                    THEN Append(calls, Call("handleApply", user, jobId, 0, "pending"))
                    ELSE calls
        /\ last' = Answer("handleApply", user, jobId, "", 0, alert, {})
        /\ UNCHANGED <<directoryVars, job_applications, group_job_applications,
                       messageVars, nextId, applications, screenJobs,
                       clientVars>>

\* handleApply from the answer of its insert on: the alert, and on success
\* fetchApplications().  reached says that the call reached the store.
AnswerApply(n, reached) ==
    LET c == calls[n]
        r == [id |-> nextId, job_id |-> c.job, artist_id |-> c.user,
              status |-> "pending"]
        error == IF reached THEN InsertJobApplicationResult(c.user, r)
                 ELSE "network_error"
        table == IF error = "ok" THEN job_applications \cup {r}
                 ELSE job_applications
    IN  /\ c.handler = "handleApply"
        /\ c.error = "sent"
        /\ job_applications' = table
        /\ nextId' = IF error = "ok" THEN nextId + 1 ELSE nextId
        /\ calls' = [calls EXCEPT ![n].error = error,
                                  ![n].alert = <<handleApplyAlert(error)>>]
        /\ applications' =
               IF error = "ok"
               THEN [applications EXCEPT ![c.user] = fetchApplications(table, c.user)]
               ELSE applications
        /\ last' = Answer("handleApply", c.user, c.job, "", 0,
                          <<handleApplyAlert(error)>>, {})
        /\ UNCHANGED <<directoryVars, group_job_applications, messageVars,
                       screenJobs,
                       clientVars>>

\* handleApplicationStatus(applicationId, status) up to its await.  The
\* screen renders the Accept and Reject buttons of an application of its jobs
\* state whose status is "pending", for a venue.
HandleApplicationStatus(user, applicationId, status) ==
    /\ Len(calls) < MaxCalls
    /\ user_profiles[user] = "venue"
    /\ \E application \in screenJobs[user] :
           application.id = applicationId /\ application.status = "pending"
    /\ calls' = Append(calls, Call("handleApplicationStatus", user, "",
                                   applicationId, status))
    /\ UNCHANGED <<directoryVars, job_applications, group_job_applications,
                   messageVars, nextId, last, applications, screenJobs,
                   clientVars>>

\* The update with the job of the application addressed in place of its id:
\* every application to that job.
updateApplicationsOfJob(user, applicationId) ==
    {r \in job_applications :
        /\ \E a \in job_applications : a.id = applicationId /\ a.job_id = r.job_id
        /\ VenuesCanUpdateApplicationStatus(user, r)}

\* .from("job_applications").update({ status }).eq("id", applicationId): the
\* rows the update of user changes.
updateApplication(user, applicationId) ==
    {r \in job_applications :
        r.id = applicationId /\ VenuesCanUpdateApplicationStatus(user, r)}

\* handleApplicationStatus from the answer of its update on: the alert, and on
\* success fetchVenueJobs().  An update that matches no row is no error.
AnswerApplicationStatus(n, reached) ==
    LET c == calls[n]
        hit == IF reached THEN updateApplication(c.user, c.id) ELSE {}
        error == IF reached THEN "ok" ELSE "network_error"
        table == (job_applications \ hit)
                     \cup {[r EXCEPT !.status = c.status] : r \in hit}
    IN  /\ c.handler = "handleApplicationStatus"
        /\ c.error = "sent"
        /\ job_applications' = table
        /\ calls' = [calls EXCEPT
                        ![n].error = error,
                        ![n].alert = handleApplicationStatusAlert(error, c.status)]
        /\ screenJobs' =
               IF error = "ok"
               THEN [screenJobs EXCEPT ![c.user] = fetchVenueJobs(table, c.user)]
               ELSE screenJobs
        /\ last' = Answer("handleApplicationStatus", c.user, "", "", c.id,
                          handleApplicationStatusAlert(error, c.status), {})
        /\ UNCHANGED <<directoryVars, group_job_applications, messageVars,
                       nextId, applications,
                       clientVars>>

InitJobsScreen ==
    /\ Posted
    /\ last = NoRequest

NextJobsScreen ==
    \/ \E u \in ScreenUsers : FetchApplications(u)
    \/ \E u \in ScreenUsers : FetchVenueJobs(u)
    \/ \E u \in ScreenUsers, j \in JobIds : HandleApply(u, j)
    \/ \E n \in DOMAIN calls, reached \in BOOLEAN : AnswerApply(n, reached)
    \/ \E u \in ScreenUsers, id \in 1..MaxCalls, st \in {"accepted", "rejected"} :
           HandleApplicationStatus(u, id, st)
    \/ \E n \in DOMAIN calls, reached \in BOOLEAN : AnswerApplicationStatus(n, reached)

SpecJobsScreen == InitJobsScreen /\ [][NextJobsScreen]_vars

\* ------------------------------------------- the review of applications
\* The profiles that apply to the jobs of v1 with requests of their own.
Applicants == {"a1", "v2"}

\* a1 and v2 apply to the jobs; the venue v1 has the JobsScreen open, and
\* accepts and rejects.
InitReview ==
    /\ Posted
    /\ last = NoRequest

NextReview ==
    \/ \E u \in Applicants, j \in JobIds : InsertJobApplication(u, j, u, "pending")
    \/ FetchVenueJobs("v1")
    \/ \E id \in 1..MaxRows, st \in {"accepted", "rejected"} :
           HandleApplicationStatus("v1", id, st)
    \/ \E n \in DOMAIN calls, reached \in BOOLEAN : AnswerApplicationStatus(n, reached)

SpecReview == InitReview /\ [][NextReview]_vars

\* ------------------------------------------------------------ text fields
\* The texts typed into a field: a text is the sequence of its characters.
Texts == {<<>>, <<" ">>, <<" ", "g">>}

RECURSIVE trimStart(_)
trimStart(s) ==
    IF s # <<>> /\ Head(s) = " " THEN trimStart(Tail(s)) ELSE s

RECURSIVE trimEnd(_)
trimEnd(s) ==
    IF s # <<>> /\ s[Len(s)] = " " THEN trimEnd(SubSeq(s, 1, Len(s) - 1)) ELSE s

\* String.prototype.trim with nothing removed.
untrimmed(s) == s

\* String.prototype.trim: s without its leading and trailing white space.
trim(s) == trimEnd(trimStart(s))

\* The useState text fields of PostJobScreen that handleSubmit requires, of
\* CreateGroupScreen, of MediaUpload and of ChatScreen.
PostJobForms ==
    [screen : {"post-job"}, title : Texts, description : Texts, genre : Texts,
     eventDate : Texts, location : Texts]
CreateGroupForms == [screen : {"create-group"}, name : Texts]
MediaUploadForms == [screen : {"media-upload"}, mediaUrl : Texts]
ChatForms == [screen : {"chat"}, newMessage : Texts]
Forms == PostJobForms \cup CreateGroupForms \cup MediaUploadForms \cup ChatForms
Fields == {"title", "description", "genre", "eventDate", "location", "name",
           "mediaUrl", "newMessage"}

\* The screen of f is opened: its fields are as in f, a form as constructed
\* (every useState("") field empty).
Open(f) ==
    /\ \A field \in DOMAIN f : field # "screen" => f[field] = <<>>
    /\ form' = f
    /\ UNCHANGED <<directoryVars, job_applications, group_job_applications,
                   messageVars, nextId, last, screenVars, contextVars>>

\* onChangeText of a field of the screen shown (setTitle, setName,
\* setMediaUrl, setNewMessage, ..): the field holds text.
Type(field, text) ==
    /\ field \in DOMAIN form \ {"screen"}
    /\ form' = [form EXCEPT ![field] = text]
    /\ UNCHANGED <<directoryVars, job_applications, group_job_applications,
                   messageVars, nextId, last, screenVars, contextVars>>

\* PostJobScreen.handleSubmit: none of the required fields is blank.
PostJobFilled ==
    /\ trim(form.title) # <<>>
    /\ trim(form.description) # <<>>
    /\ trim(form.genre) # <<>>
    /\ trim(form.eventDate) # <<>>
    /\ trim(form.location) # <<>>

\* CreateGroupScreen.handleSubmit: the name is not blank.
CreateGroupFilled == trim(form.name) # <<>>

\* ------------------------------------------------------------ MediaUpload
\* "Users can insert their own media"
UsersCanInsertTheirOwnMedia(uid, m) == uid = m.user_id

InsertUserMediaResult(uid, m) ==
    IF ~UsersCanInsertTheirOwnMedia(uid, m) THEN "rls_violation"
    ELSE IF m.user_id \notin DOMAIN user_profiles THEN "fk_violation"
    ELSE "ok"

\* MediaUpload.handleUpload of the signed-in profile u, or of nobody (Null).
HandleUpload(u) ==
    LET m == [id |-> nextId, user_id |-> u, media_url |-> trim(form.mediaUrl)]
        res == InsertUserMediaResult(u, m)
        alert == IF u = Null THEN "Please sign in to upload media"
                 ELSE IF trim(form.mediaUrl) = <<>> THEN "Please enter a media URL"
                 ELSE IF res # "ok" THEN "Failed to upload media"
                 ELSE "Media uploaded successfully!"
        uploaded == alert = "Media uploaded successfully!"
    IN  /\ form.screen = "media-upload"
        /\ nextId <= MaxRows
        /\ user_media' = IF uploaded THEN user_media \cup {m} ELSE user_media
        /\ nextId' = IF uploaded THEN nextId + 1 ELSE nextId
        /\ form' = IF uploaded THEN [form EXCEPT !.mediaUrl = <<>>] ELSE form
        /\ last' = Answer("handleUpload", u, "", u, 0, alert, {})
        /\ UNCHANGED <<auth_users, venues, user_profiles, jobs, groups,
                       group_members, job_applications, group_job_applications,
                       messageVars, screenVars, contextVars>>

\* ------------------------------------------------------------- ChatScreen
\* The profiles that have the ChatScreen with each other open.
ChatUsers == {"a1", "v1"}

\* A store call of ChatScreen as made: not answered yet, no alert shown.
\* from is the sendMessage call that awaits this fetchMessages (0: the
\* effect), content the trimmed text sent, sending the sending state.
ChatCall(handler, u, otherUserId, from, content) ==
    [handler |-> handler, user |-> u, other |-> otherUserId, from |-> from,
     content |-> content, error |-> "sent", alert |-> <<>>, thread |-> <<>>,
     marked |-> {}, sending |-> handler = "sendMessage"]

\* The sending state of u's ChatScreen.
sending(u) ==
    \E n \in DOMAIN calls :
        calls[n].handler = "sendMessage" /\ calls[n].user = u /\ calls[n].sending

\* calls with the fetchMessages call c finished: the sendMessage that awaited
\* it runs its finally block, setSending(false).
Finished(cs, c) ==
    [n \in DOMAIN cs |-> IF n = c.from THEN [cs[n] EXCEPT !.sending = FALSE]
                         ELSE cs[n]]

\* useEffect of ChatScreen: fetchMessages() up to its first await, the
\* get_conversation call.
FetchMessages(u, otherUserId) ==
    /\ Len(calls) < MaxCalls
    /\ u \in DOMAIN user_profiles
    /\ calls' = Append(calls, ChatCall("fetchMessages", u, otherUserId, 0, <<>>))
    /\ last' = MessageAnswer("fetchMessages", u, u, otherUserId, 0, "sent", {}, {})
    /\ UNCHANGED <<directoryVars, job_applications, group_job_applications,
                   messageVars, nextId, applications, screenJobs, clientVars>>

\* fetchMessages from the answer of get_conversation on: on an error the
\* alert; else setMessages(data) and markMessagesAsRead() up to its await,
\* the update.  reached says that the call reached the store.
AnswerGetConversation(n, reached) ==
    LET c == calls[n]
    IN  /\ c.handler = "fetchMessages"
        /\ c.error = "sent"
        /\ IF reached
           THEN \E thread \in OrderByCreatedAtAsc(get_conversation(c.user, c.other)) :
                    calls' = [calls EXCEPT ![n].thread = thread,
                                           ![n].error = "marking"]
           ELSE calls' = Finished([calls EXCEPT
                                      ![n].error = "network_error",
                                      ![n].alert = <<"Failed to load messages">>], c)
        /\ last' = MessageAnswer("fetchMessages", c.user, c.user, c.other, 0,
                                 IF reached THEN "marking" ELSE "network_error",
                                 {}, {})
        /\ UNCHANGED <<directoryVars, job_applications, group_job_applications,
                       messageVars, nextId, applications, screenJobs, clientVars>>

\* fetchMessages from the answer of the update of markMessagesAsRead on: the
\* answer is not looked at and a call that throws is logged only.
AnswerMarkMessagesAsRead(n, reached) ==
    LET c == calls[n]
        hit == IF reached THEN markMessagesAsRead(c.user, c.other) ELSE {}
        new == {SetMessageColumn(m, "is_read", TRUE) : m \in hit}
        error == IF reached THEN "ok" ELSE "network_error"
    IN  /\ c.handler = "fetchMessages"
        /\ c.error = "marking"
        /\ messages' = (messages \ hit) \cup new
        /\ calls' = Finished([calls EXCEPT ![n].error = error,
                                           ![n].marked = {m.id : m \in hit}], c)
        /\ last' = MessageAnswer("markMessagesAsRead", c.user, c.user, c.other, 0,
                                 error, {}, {})
        /\ UNCHANGED <<directoryVars, job_applications, group_job_applications,
                       now, nextId, applications, screenJobs, clientVars>>

\* sendMessage of the signed-in profile u up to its await: the check, then
\* the insert is sent.
SendMessage(u, otherUserId) ==
    LET returns == trim(form.newMessage) = <<>> \/ sending(u)
    IN  /\ form.screen = "chat"
        /\ Len(calls) < MaxCalls
        /\ u \in DOMAIN user_profiles
        /\ calls' = IF returns THEN calls
                    ELSE Append(calls, ChatCall("sendMessage", u, otherUserId, 0,
                                                trim(form.newMessage)))
        /\ last' = MessageAnswer("sendMessage", u, u, otherUserId, 0,
                                 IF returns THEN "returned" ELSE "sent", {}, {})
        /\ UNCHANGED <<directoryVars, job_applications, group_job_applications,
                       messageVars, nextId, applications, screenJobs, clientVars>>

\* sendMessage from the answer of its insert on: on an error the alert; else
\* setNewMessage("") and fetchMessages() up to its first await.
AnswerSendMessage(n, reached) ==
    LET c == calls[n]
        m == [id |-> nextId, sender_id |-> c.user, receiver_id |-> c.other,
              is_read |-> FALSE, created_at |-> now]
        error == IF reached THEN InsertMessageResult(c.user, m)
                 ELSE "network_error"
        answered == [calls EXCEPT
                        ![n].error = error,
                        ![n].sending = error = "ok",
                        ![n].alert = IF error = "ok" THEN <<>>
                                     ELSE <<"Failed to send message">>]
    IN  /\ c.handler = "sendMessage"
        /\ c.error = "sent"
        /\ nextId <= MaxMsgs
        /\ Len(calls) < MaxCalls
        /\ messages' = IF error = "ok" THEN messages \cup {m} ELSE messages
        /\ nextId' = IF error = "ok" THEN nextId + 1 ELSE nextId
        /\ calls' = IF error = "ok"
                    THEN Append(answered,
                                ChatCall("fetchMessages", c.user, c.other, n, <<>>))
                    ELSE answered
        /\ form' = IF error = "ok" /\ form.screen = "chat"
                   THEN [form EXCEPT !.newMessage = <<>>]
                   ELSE form
        /\ last' = MessageAnswer("sendMessage", c.user, c.user, c.other, 0,
                                 error, {}, {})
        /\ UNCHANGED <<directoryVars, job_applications, group_job_applications,
                       now, applications, screenJobs, contextVars>>

\* ---------------------------------------------------- the screens' submits
\* The profiles are signed up, nothing is posted; one of the screens with
\* text fields is shown and typed into, and its submit is pressed.
InitForms ==
    /\ InitCreate

NextForms ==
    \/ \E f \in Forms : form.screen \in {"none", f.screen} /\ Open(f)
    \/ \E field \in Fields, text \in Texts : Type(field, text)
    \/ \E u \in ScreenUsers :
           form.screen = "post-job" /\ PostJobHandleSubmit(u, PostJobFilled)
    \/ \E u \in ScreenUsers, answered \in BOOLEAN :
           /\ form.screen = "create-group"
           /\ CreateGroupHandleSubmit(u, CreateGroupFilled, answered)
    \/ \E u \in ScreenUsers \cup {Null} : HandleUpload(u)
    \/ \E u \in ChatUsers : \E o \in ChatUsers \ {u} : SendMessage(u, o)
    \/ \E n \in DOMAIN calls, reached \in BOOLEAN : AnswerSendMessage(n, reached)
    \/ \E n \in DOMAIN calls, reached \in BOOLEAN : AnswerGetConversation(n, reached)
    \/ \E n \in DOMAIN calls, reached \in BOOLEAN :
           AnswerMarkMessagesAsRead(n, reached)

SpecForms == InitForms /\ [][NextForms]_vars

\* ------------------------------------------------------- the chat of a1, v1
\* a1 and v1 have the ChatScreen with each other open; each fetches the
\* thread and sends, while the clock runs.
InitChat ==
    /\ Posted
    /\ last = NoMessageRequest

NextChat ==
    \/ \E f \in ChatForms : Open(f)
    \/ \E text \in {<<>>, <<"g">>} : Type("newMessage", text)
    \/ \E u \in ChatUsers : \E o \in ChatUsers \ {u} : FetchMessages(u, o)
    \/ \E u \in ChatUsers : \E o \in ChatUsers \ {u} : SendMessage(u, o)
    \/ \E n \in DOMAIN calls, reached \in BOOLEAN : AnswerSendMessage(n, reached)
    \/ \E n \in DOMAIN calls, reached \in BOOLEAN : AnswerGetConversation(n, reached)
    \/ \E n \in DOMAIN calls, reached \in BOOLEAN :
           AnswerMarkMessagesAsRead(n, reached)
    \/ Tick

SpecChat == InitChat /\ [][NextChat]_vars

\* ------------------------------------------------------------ AuthContext
\* The identities that sign in on the device.
AuthIds == {"a1", "v1"}

\* The calls of the context's functions in flight at a time.
MaxPending == 2

\* The updates passed to updateProfile: none, a user_type the CHECK admits,
\* one it refuses.
Updates == {<<>>, [user_type |-> "venue"], [user_type |-> "admin"]}

\* A call awaited by the context: fetchProfile(userId), or updateProfile
\* (updates) with the user and profile of the render that called it.
Awaited(call, userId, updates, prof) ==
    [call |-> call, userId |-> userId, updates |-> updates, profile |-> prof]

\* pending without its n-th call.
Answered(n) ==
    [i \in 1..(Len(pending) - 1) |-> IF i < n THEN pending[i] ELSE pending[i + 1]]

\* { ...profile, ...updates }
Spread(prof, updates) ==
    [field \in DOMAIN prof \cup DOMAIN updates |->
        IF field \in DOMAIN updates THEN updates[field] ELSE prof[field]]

\* The requester of a store call of the device: the session's user.
Requester == IF session = Null THEN Anon ELSE session

\* useEffect of AuthProvider: getSession() is called and the listener is
\* subscribed.  stored is the session the library kept from the last run.
Mount(stored) ==
    /\ last = NoRequest
    /\ pending = <<>>
    /\ session' = stored
    /\ pending' = <<Awaited("getSession", Null, <<>>, NoProfile)>>
    /\ last' = Answer("useEffect", stored, "", "", 0, "sent", {})
    /\ UNCHANGED <<directoryVars, job_applications, group_job_applications,
                   messageVars, nextId, screenVars, authUser, authProfile,
                   loading, route, form>>

\* The body shared by getSession().then(..) and the onAuthStateChange
\* listener for the session's user s, up to the await of fetchProfile; rest
\* is what is awaited besides.
SessionDelivered(s, rest) ==
    /\ authUser' = s
    /\ IF s # Null
       THEN /\ pending' = Append(rest, Awaited("fetchProfile", s, <<>>, NoProfile))
            /\ UNCHANGED <<authProfile, loading>>
       ELSE /\ pending' = rest
            /\ authProfile' = NoProfile
            /\ loading' = FALSE

\* getSession().then(..)
AnswerGetSession(n) ==
    /\ pending[n].call = "getSession"
    /\ SessionDelivered(session, Answered(n))
    /\ last' = Answer("getSession", session, "", "", 0, "ok", {})
    /\ UNCHANGED <<directoryVars, job_applications, group_job_applications,
                   messageVars, nextId, screenVars, session, route, form>>

\* signIn of id: signInWithPassword succeeds and the listener gets SIGNED_IN.
SignIn(id) ==
    /\ pending # <<>> \/ last # NoRequest
    /\ Len(pending) < MaxPending
    /\ session = Null
    /\ id \in DOMAIN user_profiles
    /\ session' = id
    /\ SessionDelivered(id, pending)
    /\ last' = Answer("signIn", id, "", "", 0, "ok", {})
    /\ UNCHANGED <<directoryVars, job_applications, group_job_applications,
                   messageVars, nextId, screenVars, route, form>>

\* The library refreshes the token: the listener gets TOKEN_REFRESHED.
TokenRefreshed ==
    /\ Len(pending) < MaxPending
    /\ session # Null
    /\ SessionDelivered(session, pending)
    /\ last' = Answer("onAuthStateChange", session, "", "", 0, "ok", {})
    /\ UNCHANGED <<directoryVars, job_applications, group_job_applications,
                   messageVars, nextId, screenVars, session, route, form>>

\* fetchProfile from the answer of its select on: setProfile(data), or
\* setProfile(null) on an error (.single() without a row is one), and
\* setLoading(false).
AnswerFetchProfile(n, reached) ==
    LET c == pending[n]
        found == reached /\ c.userId \in DOMAIN user_profiles
    IN  /\ c.call = "fetchProfile"
        /\ authProfile' = IF found
                          THEN [id |-> c.userId, user_type |-> user_profiles[c.userId]]
                          ELSE NoProfile
        /\ loading' = FALSE
        /\ pending' = Answered(n)
        /\ last' = Answer("fetchProfile", c.userId, "", c.userId, 0,
                          IF found THEN "ok" ELSE "error", {})
        /\ UNCHANGED <<directoryVars, job_applications, group_job_applications,
                       messageVars, nextId, screenVars, session, authUser,
                       route, form>>

\* signOut up to its await: supabase.auth.signOut() ends the session and the
\* listener gets SIGNED_OUT.
SignOut ==
    /\ Len(pending) < MaxPending
    /\ session # Null
    /\ session' = Null
    /\ SessionDelivered(Null, Append(pending, Awaited("signOut", Null, <<>>, NoProfile)))
    /\ last' = Answer("signOut", session, "", "", 0, "sent", {})
    /\ UNCHANGED <<directoryVars, job_applications, group_job_applications,
                   messageVars, nextId, screenVars, route, form>>

\* signOut after its await: setSession(null), setUser(null), setProfile(null).
AnswerSignOut(n) ==
    /\ pending[n].call = "signOut"
    /\ authUser' = Null
    /\ authProfile' = NoProfile
    /\ pending' = Answered(n)
    /\ last' = Answer("signOut", "", "", "", 0, "completed", {})
    /\ UNCHANGED <<directoryVars, job_applications, group_job_applications,
                   messageVars, nextId, screenVars, session, loading, route, form>>

\* updateProfile with the error of the store's answer ignored: the profile
\* state is set whatever the answer.
updateProfileIgnoringError(error, c) ==
    IF c.profile # NoProfile THEN Spread(c.profile, c.updates) ELSE authProfile

\* updateProfile after its await: the profile state it leaves for the answer
\* error (Null: none) to the call c.
updateProfileState(error, c) ==
    IF error = Null /\ c.profile # NoProfile THEN Spread(c.profile, c.updates)
    ELSE authProfile

\* updateProfile(updates) up to its await: the check of user, then the update
\* is sent.
ContextUpdateProfile(updates) ==
    /\ pending # <<>> \/ last # NoRequest
    /\ Len(pending) < MaxPending
    /\ pending' = IF authUser = Null THEN pending
                  ELSE Append(pending,
                              Awaited("updateProfile", authUser, updates, authProfile))
    /\ last' = Answer("updateProfile", authUser, "", "", 0,
                      IF authUser = Null THEN "No user logged in" ELSE "sent", {})
    /\ UNCHANGED <<directoryVars, job_applications, group_job_applications,
                   messageVars, nextId, screenVars, session, authUser,
                   authProfile, loading, route, form>>

\* updateProfile from the answer of .update(updates).eq("id", user.id) on.
\* An update that matches no row is no error.
AnswerUpdateProfile(n, reached) ==
    LET c == pending[n]
        hit == {p \in DOMAIN user_profiles :
                    p = c.userId /\ UsersCanUpdateTheirOwnProfile(Requester, p)}
        error == IF ~reached THEN "network_error"
                 ELSE IF /\ hit # {}
                         /\ "user_type" \in DOMAIN c.updates
                         /\ ~UserTypeCheck(c.updates.user_type)
                      THEN "check_violation"
                 ELSE Null
    IN  /\ c.call = "updateProfile"
        /\ user_profiles' =
               IF error = Null /\ "user_type" \in DOMAIN c.updates
               THEN [p \in DOMAIN user_profiles |->
                        IF p \in hit THEN c.updates.user_type ELSE user_profiles[p]]
               ELSE user_profiles
        /\ authProfile' = updateProfileState(error, c)
        /\ pending' = Answered(n)
        /\ last' = Answer("updateProfile", c.userId, "", c.userId, 0, error, {c})
        /\ UNCHANGED <<accountVars, jobs, groups, group_members, job_applications,
                       group_job_applications, messageVars, nextId, screenVars,
                       session, authUser, loading, route, form>>

\* ------------------------------------------------------------ IndexScreen
\* useEffect of IndexScreen with the loading check left out.
IndexScreenEffectWithoutLoading == TRUE

\* useEffect of IndexScreen: the condition under which it navigates.
IndexScreenEffectRuns == ~loading

\* useEffect of IndexScreen: router.replace to the tabs or to the login
\* screen.
IndexScreenEffect ==
    /\ route = "index"
    /\ pending # <<>> \/ last # NoRequest
    /\ IndexScreenEffectRuns
    /\ route' = IF authUser # Null THEN "/(tabs)" ELSE "/auth/login"
    /\ last' = Answer("router.replace", authUser, "", "", 0, "ok", {})
    /\ UNCHANGED <<directoryVars, job_applications, group_job_applications,
                   messageVars, nextId, screenVars, session, authUser,
                   authProfile, loading, pending, form>>

\* ------------------------------------------------------ the auth provider
InitAuth ==
    /\ Posted
    /\ last = NoRequest

NextAuth ==
    \/ \E stored \in AuthIds \cup {Null} : Mount(stored)
    \/ \E n \in DOMAIN pending : AnswerGetSession(n)
    \/ \E id \in AuthIds : SignIn(id)
    \/ TokenRefreshed
    \/ \E n \in DOMAIN pending, reached \in BOOLEAN : AnswerFetchProfile(n, reached)
    \/ SignOut
    \/ \E n \in DOMAIN pending : AnswerSignOut(n)
    \/ \E updates \in Updates : ContextUpdateProfile(updates)
    \/ \E n \in DOMAIN pending, reached \in BOOLEAN : AnswerUpdateProfile(n, reached)
    \/ IndexScreenEffect

SpecAuth == InitAuth /\ [][NextAuth]_vars

\* The effects run, and every call awaited is answered in the end (the
\* promise of a call that does not reach the store is rejected or resolves
\* with an error).
FairAuth ==
    /\ WF_vars(\E stored \in AuthIds \cup {Null} : Mount(stored))
    /\ WF_vars(\E n \in DOMAIN pending : AnswerGetSession(n))
    /\ WF_vars(\E n \in DOMAIN pending, reached \in BOOLEAN :
                   AnswerFetchProfile(n, reached))
    /\ WF_vars(IndexScreenEffect)

SpecAuthLive == InitAuth /\ [][NextAuth]_vars /\ FairAuth

\* ------------------------------------------------------------------ claims
\* C1: in every state at most one job_applications row exists per
\* (job, artist) pair, and an insert for a pair that already has a row fails
\* and leaves the table, with the one original row, as it was.
C1_OneApplicationPerPair ==
    /\ [](\A r1 \in job_applications : \A r2 \in job_applications :
              (r1.job_id = r2.job_id /\ r1.artist_id = r2.artist_id) => r1 = r2)
    /\ [][(/\ last'.op = "insert_job_application"
           /\ \E r \in job_applications :
                  r.job_id = last'.job /\ r.artist_id = last'.who)
          => (/\ last'.result # "ok"
              /\ job_applications' = job_applications)]_vars

\* C1's case: the artist's second insert for the pair was answered with the
\* uniqueness violation and the pair has its one row.
C1_Witness ==
    /\ last.op = "insert_job_application"
    /\ last.result = "unique_violation"
    /\ Cardinality({r \in job_applications :
                        r.job_id = last.job /\ r.artist_id = last.who}) = 1

\* C6: the status of a job_applications or group_job_applications row
\* changes only in an update by the profile that owns the row's job, and an
\* update by any other profile (the applicant, a group member, another venue)
\* leaves the table as it was.
IsOwnerOfJob(uid, job_id) == \E j \in jobs : j.id = job_id /\ j.venue_id = uid

C6_StatusOnlyByJobOwner ==
    [][/\ \A r \in job_applications : \A n \in job_applications' :
              (n.id = r.id /\ n.status # r.status)
                  => (/\ last'.op = "update_job_application"
                      /\ last'.id = r.id
                      /\ IsOwnerOfJob(last'.uid, r.job_id))
       /\ \A r \in group_job_applications : \A n \in group_job_applications' :
              (n.id = r.id /\ n.status # r.status)
                  => (/\ last'.op = "update_group_job_application"
                      /\ last'.id = r.id
                      /\ IsOwnerOfJob(last'.uid, r.job_id))
       /\ (/\ last'.op = "update_job_application"
           /\ \E r \in job_applications :
                  r.id = last'.id /\ ~IsOwnerOfJob(last'.uid, r.job_id))
              => job_applications' = job_applications
       /\ (/\ last'.op = "update_group_job_application"
           /\ \E r \in group_job_applications :
                  r.id = last'.id /\ ~IsOwnerOfJob(last'.uid, r.job_id))
              => group_job_applications' = group_job_applications]_vars

\* C6's case: the applicant asked for an update of their own pending
\* application, and the store updated no row.
C6_Witness ==
    /\ last.op = "update_job_application"
    /\ last.result = "no_rows"
    /\ \E r \in job_applications :
           r.id = last.id /\ r.artist_id = last.uid /\ r.status = "pending"

\* C7: a read of job_applications returns to a profile exactly the rows it
\* applied with and the rows for the jobs it owns: a row for job J by artist A
\* goes to A and to J's owner and to nobody else.
C7_ApplicationsReadableByApplicantAndOwner ==
    last.op = "select_job_applications"
        => last.rows = {r \in job_applications :
                            \/ r.artist_id = last.uid
                            \/ IsOwnerOfJob(last.uid, r.job_id)}

\* C7's case: a1 has applied to v1's job j1, and v2, which owns another job,
\* read the table and got no row.
C7_Witness ==
    /\ last.op = "select_job_applications"
    /\ last.uid = "v2"
    /\ last.rows = {}
    /\ \E r \in job_applications : r.job_id = "j1" /\ r.artist_id = "a1"

\* C2: the unread_count get_user_conversations(P) reports on the row of
\* counterpart C is the number of messages C sent to P that are not read.
C2_UnreadCountPerPartner ==
    last.op = "get_user_conversations"
        => \A c \in last.conversations :
               c.unread_count =
                   Cardinality({m \in messages :
                                    /\ m.receiver_id = last.user1
                                    /\ m.sender_id = c.other_user_id
                                    /\ m.is_read = FALSE})

\* C3: every messages row has sender_id # receiver_id, after any inserts and
\* any updates the policies admit, and an insert with sender_id = receiver_id
\* fails and adds no row.
C3_SenderIsNotReceiver ==
    /\ [](\A m \in messages : m.sender_id # m.receiver_id)
    /\ [][(last'.op = "insert_message" /\ last'.user1 = last'.user2)
          => (last'.result # "ok" /\ messages' = messages)]_vars

\* C4: a profile obtains a messages row (from a read of the table, from
\* get_conversation or from get_user_conversations) only when it is the row's
\* sender or receiver, and a row changes only in an update by its sender or
\* receiver.
C4_MessagesOnlyForTheirParties ==
    /\ [](last.op \in {"select_messages", "get_conversation",
                       "get_user_conversations"}
              => \A m \in last.rows :
                     last.uid = m.sender_id \/ last.uid = m.receiver_id)
    /\ [][\A m \in messages :
              m \notin messages'
                  => (/\ last'.op = "update_message"
                      /\ (last'.uid = m.sender_id \/ last'.uid = m.receiver_id))]_vars

\* C8: a venue profile's request to create a group and an artist profile's
\* request to create a job are rejected and add no row, so that every group's
\* creator is an artist and every job's owner is a venue.
C8_TypeGatesCreation ==
    /\ [](\A g \in groups : user_profiles[g.created_by] = "artist")
    /\ [](\A j \in jobs : user_profiles[j.venue_id] = "venue")
    /\ [][/\ (/\ last'.op \in {"insert_group", "create_group"}
              /\ user_profiles[last'.uid] = "venue")
             => groups' = groups
          /\ (/\ last'.op \in {"insert_job", "post_job"}
              /\ user_profiles[last'.uid] = "artist")
             => jobs' = jobs]_vars

\* C5: an application row starts with status pending, and once its status is
\* accepted or rejected no later update gives it another status.
C5_AcceptedAndRejectedAreTerminal ==
    [][/\ \A n \in job_applications' :
              (\A r \in job_applications : r.id # n.id) => n.status = "pending"
       /\ \A r \in job_applications : \A n \in job_applications' :
              (n.id = r.id /\ r.status \in {"accepted", "rejected"})
                  => n.status = r.status
       /\ \A n \in group_job_applications' :
              (\A r \in group_job_applications : r.id # n.id)
                  => n.status = "pending"
       /\ \A r \in group_job_applications : \A n \in group_job_applications' :
              (n.id = r.id /\ r.status \in {"accepted", "rejected"})
                  => n.status = r.status]_vars

\* The handleApply calls for one (job, artist) pair that the store answered.
AnsweredApplies(job, user) ==
    {n \in DOMAIN calls :
        /\ calls[n].handler = "handleApply"
        /\ calls[n].job = job
        /\ calls[n].user = user
        /\ calls[n].error \notin {"sent", "network_error"}}

\* C9: of the inserts of handleApply calls for one (job, artist) pair that
\* reach the store, however they interleave, exactly one succeeds and every
\* other one fails with the uniqueness violation, and the table holds two rows
\* of the pair in no state.
C9_OneOfTheRacingInsertsWins ==
    /\ \A r1 \in job_applications : \A r2 \in job_applications :
           (r1.job_id = r2.job_id /\ r1.artist_id = r2.artist_id) => r1 = r2
    /\ \A job \in JobIds : \A user \in Profiles :
           AnsweredApplies(job, user) # {}
               => /\ Cardinality({n \in AnsweredApplies(job, user) :
                                      calls[n].error = "ok"}) = 1
                  /\ \A n \in AnsweredApplies(job, user) :
                         calls[n].error \in {"ok", "unique_violation"}

\* C9's case: two handleApply calls for one pair were in flight together, and
\* the one made second won while the one made first got the violation.
C9_Witness ==
    \E n1 \in DOMAIN calls : \E n2 \in DOMAIN calls :
        /\ n1 \in calls[n2].inflight
        /\ calls[n1].handler = "handleApply"
        /\ calls[n2].handler = "handleApply"
        /\ calls[n1].job = calls[n2].job
        /\ calls[n1].user = calls[n2].user
        /\ calls[n1].error = "unique_violation"
        /\ calls[n2].error = "ok"

\* C10: when the insert of a handleApply call fails on the uniqueness
\* constraint, the alert the handler shows says that the artist has already
\* applied, and is not the alert of the other failures.
C10_DuplicateSurfacedAsAlreadyApplied ==
    \A n \in DOMAIN calls :
        (calls[n].handler = "handleApply" /\ calls[n].error = "unique_violation")
            => /\ calls[n].alert = <<"You have already applied for this job">>
               /\ calls[n].alert # <<handleApplyAlert("network_error")>>

\* The messages rows between profiles a and b, in either direction.
Between(a, b) ==
    {m \in messages :
        \/ (m.sender_id = a /\ m.receiver_id = b)
        \/ (m.sender_id = b /\ m.receiver_id = a)}

\* C11: get_conversation(A, B) returns exactly the messages rows whose
\* (sender, receiver) is (A, B) or (B, A), each of them once and no row with
\* a third profile, in an order in which created_at does not decrease.
C11_ConversationIsTheThreadInTimeOrder ==
    last.op = "get_conversation"
        => /\ {last.thread[i] : i \in DOMAIN last.thread}
                  = Between(last.user1, last.user2)
           /\ Len(last.thread) = Cardinality(Between(last.user1, last.user2))
           /\ \A i \in DOMAIN last.thread :
                  {last.thread[i].sender_id, last.thread[i].receiver_id}
                      \subseteq {last.user1, last.user2}
           /\ \A i \in DOMAIN last.thread : \A j \in DOMAIN last.thread :
                  i < j => last.thread[i].created_at <= last.thread[j].created_at

\* C11's case: the thread returned has a message of each direction, the
\* earlier one received and the later one sent by the first argument.
C11_Witness ==
    /\ last.op = "get_conversation"
    /\ Len(last.thread) = 2
    /\ last.thread[1].receiver_id = last.user1
    /\ last.thread[2].sender_id = last.user1
    /\ last.thread[1].created_at < last.thread[2].created_at

\* C12: get_user_conversations(P) returns one row for each profile other than
\* P that is the other party of some messages row with P, and no other row:
\* none for a profile without such a message, none for P itself, none twice.
C12_OneRowPerCounterpart ==
    last.op = "get_user_conversations"
        => LET counterparts ==
                   {o \in Profiles \ {last.user1} : Between(last.user1, o) # {}}
           IN  /\ {c.other_user_id : c \in last.conversations} = counterparts
               /\ Cardinality(last.conversations) = Cardinality(counterparts)

\* C17: markMessagesAsRead of R in the chat with C sets is_read on exactly
\* the rows with receiver R, sender C and is_read false and changes no other
\* row, and get_conversation changes no row.
C17_MarkAsReadTouchesOnlyTheUnreadFromCounterpart ==
    [][/\ last'.op = "markMessagesAsRead"
           => messages' =
                  {IF m.receiver_id = last'.user1 /\ m.sender_id = last'.user2
                      THEN [m EXCEPT !.is_read = TRUE] ELSE m : m \in messages}
       /\ last'.op = "get_conversation" => messages' = messages]_vars

\* C17's case: R marked the chat with C as read, which set is_read on the
\* message C sent, and an unread message from another sender stayed unread.
C17_Witness ==
    /\ last.op = "markMessagesAsRead"
    /\ \E m \in messages :
           m.receiver_id = last.user1 /\ m.sender_id = last.user2 /\ m.is_read
    /\ \E m \in messages :
           m.receiver_id = last.user1 /\ m.sender_id # last.user2 /\ ~m.is_read

\* C18: get_user_conversations(P) called twice with no change of messages in
\* between returns the same rows, with the same last message and unread
\* count, also when messages share one created_at.
C18_ConversationsRefetchIsIdentical ==
    [][(/\ last.op = "get_user_conversations"
        /\ last'.op = "get_user_conversations"
        /\ last'.user1 = last.user1
        /\ messages' = messages)
          => last'.conversations = last.conversations]_vars

\* C13: in every state at most one group_job_applications row exists per
\* (job, group) pair and at most one group_members row per (group, profile)
\* pair, and an insert for a pair that has a row fails and leaves the table as
\* it was.
C13_OneRowPerGroupPair ==
    /\ [](\A r1 \in group_job_applications : \A r2 \in group_job_applications :
              (r1.job_id = r2.job_id /\ r1.group_id = r2.group_id) => r1 = r2)
    /\ [](\A m1 \in group_members : \A m2 \in group_members :
              (m1.group_id = m2.group_id /\ m1.user_id = m2.user_id) => m1 = m2)
    /\ [][/\ (/\ last'.op = "insert_group_job_application"
              /\ \E r \in group_job_applications :
                     r.job_id = last'.job /\ r.group_id = last'.who)
             => (/\ last'.result # "ok"
                 /\ group_job_applications' = group_job_applications)
          /\ (/\ last'.op = "insert_group_member"
              /\ \E m \in group_members :
                     [group_id |-> m.group_id, user_id |-> m.user_id]
                         \in last'.rows)
             => (/\ last'.result # "ok"
                 /\ group_members' = group_members)]_vars

\* C13's case: the group's creator added a profile that is a member already,
\* the insert was answered with the uniqueness violation and the pair has its
\* one row; and the group has applied to a job.
C13_Witness ==
    /\ last.op = "insert_group_member"
    /\ last.result = "unique_violation"
    /\ \A p \in last.rows :
           Cardinality({m \in group_members :
                           m.group_id = p.group_id /\ m.user_id = p.user_id}) = 1
    /\ group_job_applications # {}

\* C14: a group_job_applications row for group G is inserted only by a
\* profile that has a group_members row of G when the insert is made; the
\* insert of any other profile, G's creator without a membership included,
\* fails and adds no row.
C14_OnlyCurrentMembersApplyForTheGroup ==
    [][/\ last'.op = "insert_group_job_application"
           => \/ \E m \in group_members :
                     m.group_id = last'.who /\ m.user_id = last'.uid
              \/ (/\ last'.result # "ok"
                  /\ group_job_applications' = group_job_applications)
       /\ \A n \in group_job_applications' :
              (\A r \in group_job_applications : r.id # n.id)
                  => /\ last'.op = "insert_group_job_application"
                     /\ \E m \in group_members :
                            m.group_id = n.group_id /\ m.user_id = last'.uid]_vars

\* C14's case: the creator of the group, who has left it while another
\* member stays, asked to apply for the group and was refused.
C14_Witness ==
    /\ last.op = "insert_group_job_application"
    /\ last.result = "rls_violation"
    /\ \E g \in groups : g.id = last.who /\ g.created_by = last.uid
    /\ ~\E m \in group_members : m.group_id = last.who /\ m.user_id = last.uid
    /\ \E m \in group_members : m.group_id = last.who
    /\ group_job_applications = {}

\* C15: a delete of group_members rows of group G by a member that is not
\* G's creator removes the member's own row when the delete names it, and no
\* other row: the group, the creator's membership and every other membership
\* stay as they were.
C15_LeavingRemovesOnlyOwnMembership ==
    [][(/\ last'.op = "delete_group_members"
        /\ \A p \in last'.rows :
               ~\E g \in groups : g.id = p.group_id /\ g.created_by = last'.uid)
          => /\ group_members' =
                    {m \in group_members :
                        ~(/\ m.user_id = last'.uid
                          /\ [group_id |-> m.group_id, user_id |-> m.user_id]
                                 \in last'.rows)}
             /\ groups' = groups]_vars

\* C15's case: a member that is not the creator asked to delete its own
\* membership and the creator's; its own row is gone, the creator's row and
\* another member's row are there.
C15_Witness ==
    /\ last.op = "delete_group_members"
    /\ last.result = "ok"
    /\ \E g \in groups :
           /\ g.created_by # last.uid
           /\ [group_id |-> g.id, user_id |-> last.uid] \in last.rows
           /\ [group_id |-> g.id, user_id |-> g.created_by] \in last.rows
           /\ ~\E m \in group_members : m.group_id = g.id /\ m.user_id = last.uid
           /\ \E m \in group_members :
                  m.group_id = g.id /\ m.user_id = g.created_by
           /\ \E m \in group_members :
                  m.group_id = g.id /\ m.user_id \notin {g.created_by, last.uid}

\* C16: when CreateGroupScreen's insert of the group succeeds and its insert
\* of the creator's membership fails, the groups row is there without a
\* group_members row of its creator, the screen reports the creation as a
\* success (with a warning) and not as an error, and the state keeps the
\* other invariants of groups: memberships are unique per (group, profile)
\* and name existing groups, and the group's creator is an artist profile.
C16_GroupSurvivesFailedMembershipInsert ==
    [][(last'.op = "create_group" /\ last'.rows # {})
          => /\ \E g \in groups' \ groups :
                    /\ g.created_by = last'.uid
                    /\ user_profiles'[g.created_by] = "artist"
                    /\ ~\E m \in group_members' : m.group_id = g.id
             /\ group_members' = group_members
             /\ last'.result = "Group created successfully!"
             /\ \A m1 \in group_members' : \A m2 \in group_members' :
                    (m1.group_id = m2.group_id /\ m1.user_id = m2.user_id)
                        => m1 = m2
             /\ \A m \in group_members' : \E g \in groups' : g.id = m.group_id]_vars

\* C16's case: the artist's group was created, the membership insert failed
\* and the warning was shown: a group without a member.
C16_Witness ==
    /\ last.op = "create_group"
    /\ last.rows = {"Group created but failed to add you as member"}
    /\ last.result = "Group created successfully!"
    /\ \E g \in groups :
           /\ g.created_by = last.uid
           /\ ~\E m \in group_members : m.group_id = g.id

\* C19: in every state each identity has exactly one user_profiles row and
\* no row is without its identity: the row is created with the identity, only
\* its owner changes it, and it is removed only when the identity is.
C19_OneProfilePerIdentity ==
    /\ [](DOMAIN user_profiles = auth_users)
    /\ [][/\ \A id \in auth_users' \ auth_users : id \in DOMAIN user_profiles'
          /\ \A p \in DOMAIN user_profiles \cap DOMAIN user_profiles' :
                 user_profiles'[p] # user_profiles[p]
                     => (last'.op = "update_profile" /\ last'.uid = p)
          /\ \A p \in DOMAIN user_profiles \ DOMAIN user_profiles' :
                 p \notin auth_users']_vars

\* C20: an update or a delete of a venues row by a requester other than the
\* profile of the row's owner_id, and any update or delete of a row whose
\* owner_id is NULL, leaves venues as it was; a row changes or goes only in
\* an update or delete by its owner (or gets owner_id NULL when its owner's
\* profile is deleted); and an insert by any authenticated identity succeeds.
C20_VenuesChangedOnlyByTheirOwner ==
    [][/\ (/\ last'.op \in {"update_venue", "delete_venue"}
           /\ \E v \in venues :
                  v.id = last'.id /\ (v.owner_id = Null \/ v.owner_id # last'.uid))
          => venues' = venues
       /\ \A v \in venues :
              v \notin venues'
                  => \/ /\ last'.op \in {"update_venue", "delete_venue"}
                        /\ last'.id = v.id
                        /\ v.owner_id # Null
                        /\ last'.uid = v.owner_id
                     \/ /\ last'.op = "delete_profile"
                        /\ last'.who = v.owner_id
                        /\ [v EXCEPT !.owner_id = Null] \in venues'
       /\ (/\ last'.op = "insert_venue"
           /\ last'.uid # Anon
           /\ last'.who \in DOMAIN user_profiles \cup {Null})
          => (/\ last'.result = "ok"
              /\ \E v \in venues' :
                     v.owner_id = last'.who /\ \A o \in venues : o.id # v.id)]_vars

\* C20's case: a profile asked to delete a venue that another profile owns
\* and no row was deleted, while the directory also has a venue without
\* owner.
C20_Witness ==
    /\ last.op = "delete_venue"
    /\ last.result = "no_rows"
    /\ last.uid \in DOMAIN user_profiles
    /\ \E v \in venues :
           v.id = last.id /\ v.owner_id \in DOMAIN user_profiles \ {last.uid}
    /\ \E v \in venues : v.owner_id = Null

\* The tables of the store.
C21_Store ==
    <<auth_users, venues, user_media, user_profiles, jobs, job_applications, groups,
      group_members, group_job_applications, messages>>

\* The request of the step is one whose authorization predicate is false:
\* for an insert the predicate over the requester and the new row, for an
\* update or a delete the predicate over the requester and the row addressed.
C21_Denied ==
    \/ /\ last'.op \in {"insert_job", "insert_group", "insert_job_application"}
       /\ last'.uid # last'.who
    \/ /\ last'.op \in {"update_job", "delete_job"}
       /\ \E j \in jobs : j.id = last'.job /\ j.venue_id # last'.uid
    \/ /\ last'.op \in {"update_group", "delete_group"}
       /\ \E g \in groups : g.id = last'.who /\ g.created_by # last'.uid
    \/ /\ last'.op = "update_job_application"
       /\ \E r \in job_applications :
              r.id = last'.id /\ ~IsOwnerOfJob(last'.uid, r.job_id)
    \/ /\ last'.op = "update_group_job_application"
       /\ \E r \in group_job_applications :
              r.id = last'.id /\ ~IsOwnerOfJob(last'.uid, r.job_id)
    \/ /\ last'.op = "insert_group_job_application"
       /\ ~\E m \in group_members :
              m.group_id = last'.who /\ m.user_id = last'.uid
    \/ /\ last'.op = "insert_group_member"
       /\ \A n \in last'.rows :
              ~\E g \in groups : g.id = n.group_id /\ g.created_by = last'.uid
    \/ /\ last'.op = "delete_group_members"
       /\ \A n \in last'.rows :
              /\ n.user_id # last'.uid
              /\ ~\E g \in groups : g.id = n.group_id /\ g.created_by = last'.uid
    \/ /\ last'.op = "insert_message"
       /\ (last'.uid # last'.user1 \/ last'.user1 = last'.user2)
    \/ /\ last'.op = "update_message"
       /\ \E m \in messages :
              m.id = last'.id /\ last'.uid \notin {m.sender_id, m.receiver_id}
    \/ /\ last'.op = "delete_profile"
       /\ last'.uid # last'.who

\* C21: for every entity and every mutation (insert, update, delete), a
\* request whose authorization predicate is false leaves every table of the
\* store as it was before the request.
C21_DeniedRequestLeavesTheStore ==
    [][C21_Denied => UNCHANGED C21_Store]_vars

\* C21's case: a profile asked to delete a job that another profile owns and
\* that has an application, and the answer has come back.
C21_Witness ==
    /\ last.op = "delete_job"
    /\ \E j \in jobs :
           /\ j.id = last.job
           /\ j.venue_id # last.uid
           /\ \E r \in job_applications : r.job_id = j.id

C22_Blank(text) == \A i \in DOMAIN text : text[i] = " "

\* The submit of the step is one with a required field blank.
C22_BlankSubmit ==
    \/ /\ last'.op = "post_job"
       /\ form.screen = "post-job"
       /\ \E field \in {"title", "description", "genre", "eventDate", "location"} :
              C22_Blank(form[field])
    \/ /\ last'.op = "create_group"
       /\ form.screen = "create-group"
       /\ C22_Blank(form.name)
    \/ /\ last'.op = "handleUpload"
       /\ form.screen = "media-upload"
       /\ C22_Blank(form.mediaUrl)
    \/ /\ last'.op = "sendMessage"
       /\ last'.result \in {"returned", "sent"}
       /\ form.screen = "chat"
       /\ C22_Blank(form.newMessage)

\* C22: a submit with a required field blank (the title, description, genre,
\* event date or location of a job, the name of a group, the URL of a media
\* item, the content of a message after trimming) sends no store call and
\* leaves every table as it was; no call of sendMessage carries a blank
\* content.
C22_BlankSubmitIssuesNoStoreCall ==
    /\ [][C22_BlankSubmit => (UNCHANGED C21_Store /\ calls' = calls)]_vars
    /\ [](\A n \in DOMAIN calls :
              calls[n].handler = "sendMessage" => ~C22_Blank(calls[n].content))

\* C22's case: the venue v1 pressed submit on the job form with a title of
\* white space only and every other field filled, and was told to fill in
\* the fields.
C22_Witness ==
    /\ last.op = "post_job"
    /\ last.uid = "v1"
    /\ last.result = "Please fill in all required fields"
    /\ form.screen = "post-job"
    /\ form.title = <<" ">>
    /\ \A field \in {"description", "genre", "eventDate", "location"} :
           ~C22_Blank(form[field])

\* C23: whenever a store write of the client fails (the mark-as-read update
\* included), the failure is surfaced: the handler that sent the call shows
\* an alert for it.
C23_FailedWriteIsSurfaced ==
    \A n \in DOMAIN calls :
        calls[n].error \notin {"sent", "marking", "ok"} => calls[n].alert # <<>>

\* C25: every message that a fetchMessages call marked as read is in the
\* thread that the same call fetched and displayed.
C25_MarkedWereFetched ==
    \A n \in DOMAIN calls :
        calls[n].handler = "fetchMessages"
            => \A id \in calls[n].marked :
                   \E i \in DOMAIN calls[n].thread : calls[n].thread[i].id = id

\* C24: in the result of get_user_conversations(P) each row's
\* last_message_time is the greatest created_at of the messages between P
\* and the row's partner in either direction, last_message is (the content
\* of) a message between them of that created_at, and the rows are in
\* non-increasing order of last_message_time.
C24_LastMessageAndOrder ==
    last.op = "get_user_conversations"
        => /\ \A i \in DOMAIN last.thread :
                  LET row == last.thread[i]
                      between == Between(last.user1, row.other_user_id)
                  IN  /\ \A m \in between : m.created_at <= row.last_message_time
                      /\ \E m \in between :
                             /\ m.id = row.last_message
                             /\ m.created_at = row.last_message_time
           /\ \A i \in DOMAIN last.thread : \A j \in DOMAIN last.thread :
                  i < j => last.thread[i].last_message_time
                               >= last.thread[j].last_message_time

\* C24's case: the conversation list of a profile was fetched and has two
\* rows of different last_message_time.
C24_Witness ==
    /\ last.op = "get_user_conversations"
    /\ Len(last.thread) = 2
    /\ last.thread[1].last_message_time > last.thread[2].last_message_time

\* C26: once signOut has completed (no signOut is awaited), a profile held
\* by the context belongs to the current user: the context never holds a
\* profile while user is null, nor the profile of another identity.
C26_ProfileBelongsToUser ==
    (\A n \in DOMAIN pending : pending[n].call # "signOut")
        => (authProfile # NoProfile
                => (authUser # Null /\ authProfile.id = authUser))

\* C27: after the auth provider starts, loading becomes false (and stays
\* false) whatever the initial session lookup gives; and the index screen
\* navigates only when loading is false, to the tabs when there is a user
\* and to the login screen when there is none.
C27_LoadingEndsAndIndexWaits ==
    /\ <>[](loading = FALSE)
    /\ [][route' # route
              => /\ loading = FALSE
                 /\ route' = IF authUser # Null THEN "/(tabs)" ELSE "/auth/login"]_vars

\* C27's case: the stored session had a user whose profile fetch failed;
\* loading is false and the index screen went to the tabs.
C27_Witness ==
    /\ route = "/(tabs)"
    /\ last.op = "router.replace"
    /\ loading = FALSE
    /\ authUser # Null
    /\ authProfile = NoProfile
    /\ pending = <<>>

C28_OnlyTheAddressedStatusChanges ==
    [][last'.op = "handleApplicationStatus"
          => /\ jobs' = jobs
             /\ group_job_applications' = group_job_applications
             /\ \A r \in job_applications :
                    \E n \in job_applications' :
                        /\ n.id = r.id
                        /\ [n EXCEPT !.status = r.status] = r
                        /\ r.id # last'.id => n = r
             /\ \A n \in job_applications' :
                    \E r \in job_applications : r.id = n.id]_vars

\* C28's case: v1 accepted one of two pending applications to the same job;
\* the other one is pending still and the job is open.
C28_Witness ==
    /\ last.op = "handleApplicationStatus"
    /\ \E r \in job_applications :
           /\ r.id = last.id
           /\ r.status = "accepted"
           /\ \E o \in job_applications :
                  o.id # r.id /\ o.job_id = r.job_id /\ o.status = "pending"
           /\ \E j \in jobs : j.id = r.job_id /\ j.status = "open"

=============================================================================
